---- MODULE Spec2Model ----
(***************************************************************************)
(* Model of app/core/gimpimagemap.c (GimpImageMap: incremental preview of  *)
(* a filter on a drawable, with a scratch "undo buffer") and of the        *)
(* floating-selection / visibility graph code of app/core/gimpdrawable.c.  *)
(***************************************************************************)
EXTENDS Integers, Sequences, FiniteSets, TLC

\* ------------------------------------------------------------------ bounds
\* drawable size, in pixels
W == 2
H == 2
\* number of pixel values
NVals == 3
\* number of g_idle_add() calls (one per effective apply) explored
MaxApply == 2
\* number of selection changes explored
MaxSel == 1
\* number of undo steps pushed by gimp_drawable_push_undo() explored
MaxUndo == 1
\* number of fills and type conversions of the drawable explored
MaxEdit == 1
\* number of moves of a layer explored
MaxMove == 1
\* nested emissions of "update" after which the stack is exhausted
MaxNest == 3

\* an absent object (a NULL pointer)
NULL == [null |-> TRUE]

\* ---------------------------------------------------------------- geometry
\* The image is one column wider than the drawable, which sits at offset
\* (0,0): a selection may lie wholly outside the drawable.
ImgW == W + 1
ImgH == H

Pixels      == (0 .. W - 1) \X (0 .. H - 1)
ImagePixels == (0 .. ImgW - 1) \X (0 .. ImgH - 1)
Vals        == 0 .. NVals - 1
Formats     == {"RGB", "GRAY"}

Rect(x, y, w, h) == [x |-> x, y |-> y, width |-> w, height |-> h]

InRect(p, r) ==
  /\ p[1] >= r.x /\ p[1] < r.x + r.width
  /\ p[2] >= r.y /\ p[2] < r.y + r.height

PixelsOf(r)  == {p \in (r.x .. r.x + r.width - 1) \X (r.y .. r.y + r.height - 1) : TRUE}

Extent(w, h) == (0 .. w - 1) \X (0 .. h - 1)

Min(a, b) == IF a < b THEN a ELSE b
Max(a, b) == IF a > b THEN a ELSE b

SetMin(S) == CHOOSE a \in S : \A b \in S : a <= b
SetMax(S) == CHOOSE a \in S : \A b \in S : a >= b

\* gimp_rectangle_intersect(): the intersection, or NULL when it is empty
gimp_rectangle_intersect(a, b) ==
  LET x1 == Max(a.x, b.x)
      y1 == Max(a.y, b.y)
      x2 == Min(a.x + a.width,  b.x + b.width)
      y2 == Min(a.y + a.height, b.y + b.height)
  IN  IF x2 > x1 /\ y2 > y1 THEN Rect(x1, y1, x2 - x1, y2 - y1) ELSE NULL

\* gegl_buffer_copy (src, src_rect, dst, dst_rect): only the origin of
\* dst_rect is used; the copy is clipped to both buffers' extents.
gegl_buffer_copy(src, sr, dst, dx, dy) ==
  [q \in DOMAIN dst |->
     LET p == <<q[1] - dx + sr.x, q[2] - dy + sr.y>>
     IN  IF p \in DOMAIN src /\ InRect(p, sr) THEN src[p] ELSE dst[q]]

\* gegl_buffer_new (GEGL_RECTANGLE (0, 0, w, h), format): zeroed pixels
gegl_buffer_new(w, h, format) ==
  [width |-> w, height |-> h, format |-> format,
   data  |-> [p \in Extent(w, h) |-> 0]]

\* ------------------------------------------------------------------- state
VARIABLES
  drawable,    \* GimpDrawable: buffer, format, attached, shadow buffer
  image,       \* GimpImage: selection mask, undo stack
  image_map,   \* struct _GimpImageMap
  main_loop,   \* the GLib main loop: live idle sources, next source id
  emitted,     \* signals emitted by the last operation, in order
  op,          \* the last operation
  nsel,        \* number of selection changes so far
  nedit,       \* number of fills and type conversions so far
  hist         \* history: what the drawable held at earlier operations

mapvars == <<drawable, image, image_map, main_loop, emitted, op, nsel, nedit,
             hist>>

\* the state the operators below transform
World == [dr |-> drawable, img |-> image, im |-> image_map,
          loop |-> main_loop, out |-> <<>>]

\* the selections explored: none, a non-rectangular one whose bounding
\* box is the whole drawable, one column, and one outside the drawable
NoSel    == {}
Diag     == {p \in Pixels : (p[1] + p[2]) % 2 = 0}
LeftCol  == {p \in Pixels : p[1] = 0}
Outside  == {p \in ImagePixels : p[1] >= W}
RightCol == {p \in Pixels : p[1] = W - 1}
Masks    == {NoSel, Diag, LeftCol, Outside}

\* the initial contents explored
InitBuffers == {[p \in Pixels |-> (p[1] + 2 * p[2]) % NVals]}

\* a filter operation handed to gimp_image_map_new(): a point filter
Filter(v) == (v + 1) % NVals

\* the operations handed to gimp_image_map_new(), by the pads they have: a
\* filter (input and output), a source that renders one opaque colour
\* (output only), and an operation with neither pad
Operations ==
  {[pads |-> {"input", "output"}, value |-> 0],
   [pads |-> {"output"}, value |-> NVals - 1],
   [pads |-> {}, value |-> 0]}

\* ------------------------------------------------- collaborators (gimpitem)
gimp_channel_is_empty(mask) == mask = {}

\* gimp_channel_bounds(): bounding box of a non-empty mask, image coordinates
gimp_channel_bounds(mask) ==
  LET xs == {p[1] : p \in mask}
      ys == {p[2] : p \in mask}
  IN  Rect(SetMin(xs), SetMin(ys),
           SetMax(xs) - SetMin(xs) + 1, SetMax(ys) - SetMin(ys) + 1)

\* gimp_item_mask_intersect(): the drawable's extent clipped to the bounds
\* of the selection (the whole drawable when nothing is selected); NULL
\* when the intersection is empty.  The drawable's offset is (0,0).
gimp_item_mask_intersect(s) ==
  IF gimp_channel_is_empty(s.img.mask)
    THEN Rect(0, 0, W, H)
    ELSE gimp_rectangle_intersect(gimp_channel_bounds(s.img.mask),
                                  Rect(0, 0, W, H))

gimp_item_is_attached(s) == s.dr.attached

\* gimp_drawable_real_apply_buffer(), as called by data_written: opaque,
\* replace mode, no base buffer: inside `region` clipped to the drawable
\* the source replaces the drawable's pixels where the selection covers
\* them (everywhere when nothing is selected).
gimp_drawable_apply_buffer(s, src, region) ==
  [s EXCEPT !.dr.buffer =
     [p \in Pixels |->
        IF /\ InRect(p, region)
           /\ (gimp_channel_is_empty(s.img.mask) \/ p \in s.img.mask)
          THEN src[p] ELSE s.dr.buffer[p]]]

\* gimp_drawable_update(): emits "update" (x, y, width, height)
gimp_drawable_update(s, r) ==
  [s EXCEPT !.out = Append(@, [sig |-> "update", rect |-> r])]

\* gimp_drawable_real_convert_type(): a buffer of the new format receives a
\* copy of the pixels and replaces the drawable's buffer through
\* gimp_drawable_set_buffer(): on an attached drawable push_undo records the
\* drawable as it is (gimp_image_undo_push_drawable_mod), the extent does
\* not change, and the whole drawable is updated
gimp_drawable_real_convert_type(s, format, push_undo) ==
  LET push == push_undo /\ s.dr.attached
      s1   == IF push
                THEN [s EXCEPT !.img.undo =
                        Append(@, [rect |-> Rect(0, 0, W, H),
                                   data |-> s.dr.buffer]),
                               !.out = Append(@, [sig |-> "undo_push_mod"])]
                ELSE s
      s2   == [s1 EXCEPT !.dr.format = format]
  IN  gimp_drawable_update(s2, Rect(0, 0, W, H))

\* gimp_drawable_fill(): with a colour every pixel takes the colour
\* (gegl_buffer_set_color), without one the pattern is tiled over the
\* drawable from its origin (gegl_buffer_set_pattern); the whole drawable
\* is updated
gimp_drawable_fill(s, color, pattern) ==
  LET filled == IF color # NULL
                  THEN [p \in Pixels |-> color.value]
                  ELSE [p \in Pixels |->
                          pattern.data[<<p[1] % pattern.width,
                                         p[2] % pattern.height>>]]
  IN  gimp_drawable_update([s EXCEPT !.dr.buffer = filled],
                           Rect(0, 0, W, H))

\* gimp_drawable_push_undo() and gimp_drawable_real_push_undo(): without a
\* buffer the region is clipped to the drawable, an empty one is a
\* warning, and the pixels of the clipped region are the snapshot; a buffer
\* given is pushed with the position as it is
gimp_drawable_push_undo(s, buf, x, y, w, h) ==
  LET clip == gimp_rectangle_intersect(Rect(x, y, w, h), Rect(0, 0, W, H))
  IN
  IF ~ gimp_item_is_attached(s) THEN s
  ELSE IF buf = NULL /\ clip = NULL
    THEN [s EXCEPT !.out = Append(@, [sig |-> "warning"])]
  ELSE [s EXCEPT !.img.undo =
          Append(@, [rect |-> IF buf = NULL THEN clip ELSE Rect(x, y, w, h),
                     data |-> IF buf = NULL
                                THEN gegl_buffer_copy(s.dr.buffer, clip,
                                       [p \in Extent(clip.width, clip.height)
                                          |-> 0], 0, 0)
                                ELSE buf.data]),
                  !.out = Append(@, [sig |-> "undo_push"])]

\* variant: the drawable takes the buffer's pixels and the buffer keeps
\* its own
gimp_drawable_real_swap_pixels_oneway(s, buffer, x, y) ==
  LET width  == buffer.width
      height == buffer.height
  IN  [s |-> gimp_drawable_update(
               [s EXCEPT !.dr.buffer =
                  gegl_buffer_copy(buffer.data, Rect(0, 0, width, height),
                                   s.dr.buffer, x, y)],
               Rect(x, y, width, height)),
       buffer |-> buffer]

\* gimp_drawable_real_swap_pixels(): the state after the call and the
\* caller's buffer after the call
gimp_drawable_real_swap_pixels(s, buffer, x, y) ==
  LET width  == buffer.width
      height == buffer.height
      tmp    == buffer
      buf1   == [buffer EXCEPT !.data =
                   gegl_buffer_copy(s.dr.buffer, Rect(x, y, width, height),
                                    buffer.data, 0, 0)]
  IN  [s |-> gimp_drawable_update(
               [s EXCEPT !.dr.buffer =
                  gegl_buffer_copy(tmp.data, Rect(0, 0, width, height),
                                   s.dr.buffer, x, y)],
               Rect(x, y, width, height)),
       buffer |-> buf1]

\* gimp_drawable_swap_pixels()
gimp_drawable_swap_pixels(s, buffer, x, y) ==
  gimp_drawable_real_swap_pixels(s, buffer, x, y)

\* ----------------------------------------------------------- gimpimagemap.c
\* gimp_image_map_get_pixel_at(): whether (x, y) could be sampled, and the
\* value sampled
gimp_image_map_get_pixel_at(s, x, y) ==
  IF x >= 0 /\ x < W /\ y >= 0 /\ y < H
    THEN IF /\ s.im.undo_buffer # NULL
            /\ x >= s.im.undo_offset_x
            /\ x < s.im.undo_offset_x + s.im.undo_buffer.width
            /\ y >= s.im.undo_offset_y
            /\ y < s.im.undo_offset_y + s.im.undo_buffer.height
           THEN [ret   |-> TRUE,
                 pixel |-> s.im.undo_buffer.data[<<x - s.im.undo_offset_x,
                                                   y - s.im.undo_offset_y>>]]
           ELSE [ret |-> TRUE, pixel |-> s.dr.buffer[<<x, y>>]]
    ELSE [ret |-> FALSE, pixel |-> NULL]

\* variant: the idle source stays in the main loop
gimp_image_map_stop_idle_keepsource(s) ==
  IF s.im.idle_id # 0
    THEN [s EXCEPT !.im.idle_id = 0]
    ELSE s

\* gimp_image_map_stop_idle()
gimp_image_map_stop_idle(s) ==
  IF s.im.idle_id # 0
    THEN [s EXCEPT !.loop.sources = @ \ {s.im.idle_id},
                   !.im.idle_id   = 0,
                   !.im.processor = NULL]
    ELSE s

\* gimp_image_map_update_undo_buffer()
\* variant: the scratch buffer is filled again on every call
gimp_image_map_update_undo_buffer_always(s, rect) ==
  LET held == s.im.undo_buffer # NULL
      buf  == IF \/ ~ held
                 \/ s.im.undo_buffer.width  # rect.width
                 \/ s.im.undo_buffer.height # rect.height
                THEN gegl_buffer_new(rect.width, rect.height, s.dr.format)
                ELSE s.im.undo_buffer
  IN  [s EXCEPT !.im.undo_buffer =
                   [buf EXCEPT !.data =
                      gegl_buffer_copy(s.dr.buffer, rect, buf.data, 0, 0)],
                !.im.undo_offset_x = rect.x,
                !.im.undo_offset_y = rect.y]

gimp_image_map_update_undo_buffer(s, rect) ==
  LET held          == s.im.undo_buffer # NULL
      undo_offset_x == IF held THEN s.im.undo_offset_x ELSE 0
      undo_offset_y == IF held THEN s.im.undo_offset_y ELSE 0
      undo_width    == IF held THEN s.im.undo_buffer.width  ELSE 0
      undo_height   == IF held THEN s.im.undo_buffer.height ELSE 0
  IN
  IF \/ ~ held
     \/ undo_offset_x # rect.x
     \/ undo_offset_y # rect.y
     \/ undo_width    # rect.width
     \/ undo_height   # rect.height
    THEN
      LET buf == IF \/ ~ held
                    \/ undo_width  # rect.width
                    \/ undo_height # rect.height
                   THEN gegl_buffer_new(rect.width, rect.height, s.dr.format)
                   ELSE s.im.undo_buffer
      IN [s EXCEPT !.im.undo_buffer =
                      [buf EXCEPT !.data =
                         gegl_buffer_copy(s.dr.buffer, rect, buf.data, 0, 0)],
                   !.im.undo_offset_x = rect.x,
                   !.im.undo_offset_y = rect.y]
    ELSE s

\* the chunks a GeglProcessor over `rect` works through, one per
\* gegl_processor_work() call: the top rows of rect, then the rest
Chunks(rect) ==
  LET top == (rect.height + 1) \div 2
  IN  IF rect.height - top > 0
        THEN <<Rect(rect.x, rect.y, rect.width, top),
               Rect(rect.x, rect.y + top, rect.width, rect.height - top)>>
        ELSE <<rect>>

\* gegl_node_new_processor (image_map->output, &rect)
gegl_node_new_processor(rect) == [rect |-> rect, todo |-> Chunks(rect)]

\* variant: the scratch pixels are not re-asserted before the splice
gimp_image_map_data_written_noreset(s, extent) ==
  gimp_drawable_update(gimp_drawable_apply_buffer(s, s.dr.shadow, extent),
                       extent)

\* gimp_image_map_data_written(): the "computed" handler of the sink
gimp_image_map_data_written(s, extent) ==
  LET s1 == IF ~ gimp_channel_is_empty(s.img.mask)
              THEN [s EXCEPT !.dr.buffer =
                      gegl_buffer_copy(s.im.undo_buffer.data,
                        Rect(extent.x - s.im.undo_offset_x,
                             extent.y - s.im.undo_offset_y,
                             extent.width, extent.height),
                        s.dr.buffer, extent.x, extent.y)]
              ELSE s
      s2 == gimp_drawable_apply_buffer(s1, s1.dr.shadow, extent)
  IN  gimp_drawable_update(s2, extent)

\* what the graph built by gimp_image_map_apply() makes of an input pixel:
\* an operation with input and output pads is linked into the chain and
\* filters it; one with an output pad only is put on the aux pad of a
\* gegl:over node, whose opaque colour covers it; one with neither pad is
\* not linked and the pixel passes unchanged
OperationOutput(operation, v) ==
  IF "input" \in operation.pads /\ "output" \in operation.pads
    THEN Filter(v)
  ELSE IF "output" \in operation.pads
    THEN operation.value
  ELSE v

\* the graph input -> translate -> ... -> output evaluated on one chunk:
\* the scratch buffer, moved by the translate node, passed through the
\* operation as it is wired, and written to the shadow buffer by the
\* gegl:write-buffer sink
GraphOutput(s, p) ==
  LET q == <<p[1] - s.im.translate[1], p[2] - s.im.translate[2]>>
  IN  IF q \in DOMAIN s.im.undo_buffer.data
        THEN OperationOutput(s.im.operation, s.im.undo_buffer.data[q])
        ELSE 0

\* gegl_processor_work(): computes the next chunk, which makes the sink
\* emit "computed" for it; returns whether more work is pending
gegl_processor_work(s) ==
  LET extent == Head(s.im.processor.todo)
      s1 == [s EXCEPT !.dr.shadow =
               [p \in Pixels |-> IF InRect(p, extent)
                                   THEN GraphOutput(s, p) ELSE @[p]],
                      !.im.processor.todo = Tail(@)]
      s2 == gimp_image_map_data_written(s1, extent)
  IN  [s |-> s2, pending |-> s2.im.processor.todo # <<>>]

\* variant: the callback does not look whether the drawable is attached
gimp_image_map_do_unchecked(s) ==
  LET w == gegl_processor_work(s)
  IN  IF ~ w.pending
        THEN [s |-> [w.s EXCEPT !.im.processor = NULL,
                                !.im.idle_id   = 0,
                                !.out = Append(@, [sig |-> "flush"])],
              ret |-> FALSE]
        ELSE [s |-> [w.s EXCEPT !.out = Append(@, [sig |-> "flush"])],
              ret |-> TRUE]

\* variant: the final tick keeps the idle handle and the processor
gimp_image_map_do_keep(s) ==
  IF ~ gimp_item_is_attached(s)
    THEN [s |-> [s EXCEPT !.im.idle_id = 0, !.im.processor = NULL],
          ret |-> FALSE]
    ELSE LET w == gegl_processor_work(s)
         IN  [s |-> [w.s EXCEPT !.out = Append(@, [sig |-> "flush"])],
              ret |-> w.pending]

\* gimp_image_map_do(): the idle callback; ret is its return value
gimp_image_map_do(s) ==
  IF ~ gimp_item_is_attached(s)
    THEN [s |-> [s EXCEPT !.im.idle_id = 0, !.im.processor = NULL],
          ret |-> FALSE]
    ELSE LET w == gegl_processor_work(s)
         IN  IF ~ w.pending
               THEN [s |-> [w.s EXCEPT !.im.processor = NULL,
                                       !.im.idle_id   = 0,
                                       !.out = Append(@, [sig |-> "flush"])],
                     ret |-> FALSE]
               ELSE [s |-> [w.s EXCEPT !.out = Append(@, [sig |-> "flush"])],
                     ret |-> TRUE]

\* variant: the processor works on the whole drawable, not on the rectangle
gimp_image_map_apply_unclipped(s, visible) ==
  LET s1   == gimp_image_map_stop_idle(s)
      rect == gimp_item_mask_intersect(s1)
  IN
  IF ~ gimp_item_is_attached(s1) THEN s1
  ELSE IF rect = NULL THEN s1
  ELSE
    LET s2 == gimp_image_map_update_undo_buffer(s1, rect)
        id == s2.loop.next_id
    IN  [s2 EXCEPT !.im.translate = <<rect.x, rect.y>>,
                   !.im.processor = gegl_node_new_processor(Rect(0, 0, W, H)),
                   !.im.idle_id   = id,
                   !.loop.sources = @ \cup {id},
                   !.loop.next_id = @ + 1]

\* variant: a run still scheduled is not stopped first
gimp_image_map_apply_nostop(s, visible) ==
  LET rect == gimp_item_mask_intersect(s)
  IN
  IF ~ gimp_item_is_attached(s) THEN s
  ELSE IF rect = NULL THEN s
  ELSE
    LET s2 == gimp_image_map_update_undo_buffer(s, rect)
        id == s2.loop.next_id
    IN  [s2 EXCEPT !.im.translate = <<rect.x, rect.y>>,
                   !.im.processor = gegl_node_new_processor(rect),
                   !.im.idle_id   = id,
                   !.loop.sources = @ \cup {id},
                   !.loop.next_id = @ + 1]

\* variant: the pixels of the scratch buffer are put back before the new
\* run is scheduled
gimp_image_map_apply_restoring(s, visible) ==
  LET s0   == gimp_image_map_stop_idle(s)
      s1   == IF s0.im.undo_buffer # NULL
                THEN [s0 EXCEPT !.dr.buffer =
                        gegl_buffer_copy(s0.im.undo_buffer.data,
                                         Rect(0, 0, s0.im.undo_buffer.width,
                                              s0.im.undo_buffer.height),
                                         s0.dr.buffer,
                                         s0.im.undo_offset_x,
                                         s0.im.undo_offset_y)]
                ELSE s0
      rect == gimp_item_mask_intersect(s1)
  IN
  IF ~ gimp_item_is_attached(s1) THEN s1
  ELSE IF rect = NULL THEN s1
  ELSE
    LET s2 == gimp_image_map_update_undo_buffer(s1, rect)
        id == s2.loop.next_id
    IN  [s2 EXCEPT !.im.translate = <<rect.x, rect.y>>,
                   !.im.processor = gegl_node_new_processor(rect),
                   !.im.idle_id   = id,
                   !.loop.sources = @ \cup {id},
                   !.loop.next_id = @ + 1]

\* gimp_image_map_apply(); `visible` is the rectangle the caller passes
gimp_image_map_apply(s, visible) ==
  LET s1   == gimp_image_map_stop_idle(s)
      rect == gimp_item_mask_intersect(s1)
  IN
  IF ~ gimp_item_is_attached(s1) THEN s1
  ELSE IF rect = NULL THEN s1
  ELSE
    LET s2 == gimp_image_map_update_undo_buffer(s1, rect)
        id == s2.loop.next_id
    IN  [s2 EXCEPT !.im.translate = <<rect.x, rect.y>>,
                   !.im.processor = gegl_node_new_processor(rect),
                   !.im.idle_id   = id,
                   !.loop.sources = @ \cup {id},
                   !.loop.next_id = @ + 1]

\* variant: a single call instead of the loop
DoOnce(s) == gimp_image_map_do(s).s

\* while (gimp_image_map_do (image_map));
RECURSIVE DoWhile(_)
DoWhile(s) ==
  LET r == gimp_image_map_do(s)
  IN  IF r.ret THEN DoWhile(r.s) ELSE r.s

\* gimp_image_map_commit(), "Register an undo step": push the scratch
\* buffer to the undo stack and let go of it
RegisterUndo(s) ==
  IF s.im.undo_buffer # NULL
    THEN [gimp_drawable_push_undo(s, s.im.undo_buffer,
                                  s.im.undo_offset_x, s.im.undo_offset_y,
                                  s.im.undo_buffer.width,
                                  s.im.undo_buffer.height)
            EXCEPT !.im.undo_buffer = NULL]
    ELSE s

\* variant: the undo step is taken without looking at the attachment
gimp_image_map_commit_unchecked(s) ==
  LET s1 == IF s.im.idle_id # 0
              THEN DoWhile([s EXCEPT !.loop.sources = @ \ {s.im.idle_id},
                                     !.im.idle_id   = 0])
              ELSE s
  IN  RegisterUndo(s1)

\* variant: the scratch buffer is kept after the push
gimp_image_map_commit_keep(s) ==
  LET s1 == IF s.im.idle_id # 0
              THEN DoWhile([s EXCEPT !.loop.sources = @ \ {s.im.idle_id},
                                     !.im.idle_id   = 0])
              ELSE s
  IN
  IF ~ gimp_item_is_attached(s1) THEN s1
  ELSE [RegisterUndo(s1) EXCEPT !.im.undo_buffer = s1.im.undo_buffer]

\* gimp_image_map_commit()
gimp_image_map_commit(s) ==
  LET s1 == IF s.im.idle_id # 0
              THEN DoWhile([s EXCEPT !.loop.sources = @ \ {s.im.idle_id},
                                     !.im.idle_id   = 0])
              ELSE s
  IN
  IF ~ gimp_item_is_attached(s1) THEN s1
  ELSE RegisterUndo(s1)

\* variant: the scratch buffer is copied back whatever its format
gimp_image_map_clear_anyformat(s) ==
  LET s1 == gimp_image_map_stop_idle(s)
  IN
  IF ~ gimp_item_is_attached(s1) THEN s1
  ELSE IF s1.im.undo_buffer # NULL
    THEN
      LET x      == s1.im.undo_offset_x
          y      == s1.im.undo_offset_y
          width  == s1.im.undo_buffer.width
          height == s1.im.undo_buffer.height
          s2 == gimp_drawable_update(
                  [s1 EXCEPT !.dr.buffer =
                     gegl_buffer_copy(s1.im.undo_buffer.data,
                                      Rect(0, 0, width, height),
                                      s1.dr.buffer, x, y)],
                  Rect(x, y, width, height))
      IN [s2 EXCEPT !.im.undo_buffer = NULL]
    ELSE s1

\* variant: the scratch buffer is dropped without being copied back
gimp_image_map_clear_norestore(s) ==
  LET s1 == gimp_image_map_stop_idle(s)
  IN  IF ~ gimp_item_is_attached(s1) THEN s1
      ELSE [s1 EXCEPT !.im.undo_buffer = NULL]

\* gimp_image_map_clear()
gimp_image_map_clear(s) ==
  LET s1 == gimp_image_map_stop_idle(s)
  IN
  IF ~ gimp_item_is_attached(s1) THEN s1
  ELSE IF s1.im.undo_buffer # NULL
    THEN
      LET x      == s1.im.undo_offset_x
          y      == s1.im.undo_offset_y
          width  == s1.im.undo_buffer.width
          height == s1.im.undo_buffer.height
          s2 == IF s1.im.undo_buffer.format # s1.dr.format
                  THEN [s1 EXCEPT !.out = Append(@, [sig |-> "message"])]
                  ELSE gimp_drawable_update(
                         [s1 EXCEPT !.dr.buffer =
                            gegl_buffer_copy(s1.im.undo_buffer.data,
                                             Rect(0, 0, width, height),
                                             s1.dr.buffer, x, y)],
                         Rect(x, y, width, height))
      IN [s2 EXCEPT !.im.undo_buffer = NULL]
    ELSE s1

\* gimp_image_map_abort()
gimp_image_map_abort(s) ==
  LET s1 == gimp_image_map_stop_idle(s)
  IN  IF ~ gimp_item_is_attached(s1) THEN s1
      ELSE gimp_image_map_clear(s1)

\* ------------------------------------------------------------- the machine
\* the state after gimp_image_map_new() on an attached drawable
InitMap ==
  /\ drawable \in [buffer : InitBuffers, format : Formats,
                   attached : {TRUE}, shadow : {[p \in Pixels |-> 0]}]
  /\ image \in [mask : Masks, undo : {<<>>}]
  /\ \E operation \in Operations :
       image_map = [undo_buffer |-> NULL, undo_offset_x |-> 0,
                    undo_offset_y |-> 0, translate |-> <<0, 0>>,
                    processor |-> NULL, idle_id |-> 0,
                    operation |-> operation]
  /\ main_loop = [sources |-> {}, next_id |-> 1]
  /\ emitted = <<>>
  /\ op = "new"
  /\ nsel = 0
  /\ nedit = 0
  /\ hist = [phase |-> "none", rect |-> NULL, prev |-> FALSE, ticked |-> FALSE,
             cancelled |-> FALSE, filled |-> FALSE,
             pre |-> drawable.buffer, pop |-> drawable.buffer,
             orig |-> drawable.buffer]

\* the rectangle the scratch buffer covers in the drawable
ScratchRect(im) ==
  IF im.undo_buffer = NULL THEN NULL
  ELSE Rect(im.undo_offset_x, im.undo_offset_y,
            im.undo_buffer.width, im.undo_buffer.height)

\* the rectangles of the "update" signals in a signal sequence
Updates(out) == {out[i].rect : i \in {j \in DOMAIN out : out[j].sig = "update"}}

\* the history after operation `name` took the current state to s:
\*   phase   "run" after an apply that scheduled a run and ticks only,
\*           "committed" / "cleared" when commit / clear ended such a phase
\*   rect    the rectangle of the last apply that scheduled a run
\*   pre     the drawable's pixels when that apply was called
\*   pop     the drawable's pixels when the scratch was last populated
\*   orig    the drawable's pixels when the scratch was first allocated
\*           (the apply that found no scratch buffer)
\*   ticked  whether a tick ran since the last apply that scheduled a run
\*   prev    whether the operation before this one was a commit
\*   rect, pre, pop, orig and ticked are kept until the operation after the
\*   one that released the scratch buffer; with no session pending they
\*   are NULL, the current pixels and FALSE
\*   cancelled  whether this operation found a run scheduled and stopped it
\*   filled  whether the drawable was filled since the scratch buffer now
\*           held was allocated
HistAfter(name, s) ==
  LET rect == gimp_item_mask_intersect(World)
      eff  == name = "apply" /\ drawable.attached /\ rect # NULL
      none == image_map.undo_buffer = NULL
      phase == IF eff THEN "run"
               ELSE IF name = "tick" THEN hist.phase
               ELSE IF name = "commit" /\ hist.phase = "run" THEN "committed"
               ELSE IF name = "clear"  /\ hist.phase = "run" THEN "cleared"
               ELSE "none"
      over == /\ phase = "none"
              /\ none
              /\ s.im.undo_buffer = NULL
  IN  [phase   |-> phase,
       rect    |-> IF eff THEN rect
                   ELSE IF over THEN NULL ELSE hist.rect,
       pre     |-> IF eff THEN drawable.buffer
                   ELSE IF over THEN s.dr.buffer ELSE hist.pre,
       pop     |-> IF eff /\ (none \/ ScratchRect(image_map) # rect)
                     THEN drawable.buffer
                   ELSE IF over THEN s.dr.buffer ELSE hist.pop,
       orig    |-> IF eff /\ none THEN drawable.buffer
                   ELSE IF over THEN s.dr.buffer ELSE hist.orig,
       ticked  |-> IF eff THEN FALSE
                   ELSE IF over THEN FALSE
                   ELSE IF name = "tick" THEN TRUE
                   ELSE hist.ticked,
       prev    |-> op = "commit",
       cancelled |-> /\ name \in {"apply", "clear", "abort"}
                     /\ image_map.idle_id # 0,
       filled  |-> /\ s.im.undo_buffer # NULL
                   /\ (name = "fill" \/ hist.filled)]

\* the variables take the state s after operation `name`
Becomes(s, name) ==
  /\ drawable'  = s.dr
  /\ image'     = s.img
  /\ image_map' = s.im
  /\ main_loop' = s.loop
  /\ emitted'   = s.out
  /\ op'        = name
  /\ nedit'     = IF name \in {"fill", "convert"} THEN nedit + 1 ELSE nedit
  /\ hist'      = HistAfter(name, s)

\* the rectangles callers pass to gimp_image_map_apply(): the whole
\* drawable, or the part of it that is visible on screen
VisibleRects == {Rect(0, 0, W, H), Rect(0, 0, 1, 1)}

Apply ==
  /\ main_loop.next_id <= MaxApply
  /\ \E visible \in VisibleRects :
       Becomes(gimp_image_map_apply(World, visible), "apply")
  /\ UNCHANGED nsel

\* the main loop dispatches an idle source; a FALSE return removes it
Tick ==
  /\ \E id \in main_loop.sources :
       \E r \in {gimp_image_map_do(World)} :
         \E s \in {IF r.ret THEN r.s
                    ELSE [r.s EXCEPT !.loop.sources = @ \ {id}]} :
           Becomes(s, "tick")
  /\ UNCHANGED nsel

Commit ==
  /\ Becomes(gimp_image_map_commit(World), "commit")
  /\ UNCHANGED nsel

Clear ==
  /\ Becomes(gimp_image_map_clear(World), "clear")
  /\ UNCHANGED nsel

Abort ==
  /\ Becomes(gimp_image_map_abort(World), "abort")
  /\ UNCHANGED nsel

\* the user changes the selection while the preview is pending
SelectionChange ==
  /\ nsel < MaxSel
  /\ \E m \in Masks \ {image.mask} :
       Becomes([World EXCEPT !.img.mask = m], "select")
  /\ nsel' = nsel + 1

\* the drawable is removed from its image (gimp_drawable_removed frees the
\* shadow buffer)
Remove ==
  /\ drawable.attached
  /\ Becomes([World EXCEPT !.dr.attached = FALSE,
                           !.dr.shadow = [p \in Pixels |-> 0]], "remove")
  /\ UNCHANGED nsel

\* the image mode changes: gimp_drawable_real_convert_type() gives the
\* drawable a buffer of another format holding the same pixels
ConvertType ==
  /\ nedit < MaxEdit
  /\ \E f \in Formats \ {drawable.format}, push_undo \in BOOLEAN :
       Becomes(gimp_drawable_real_convert_type(World, f, push_undo),
               "convert")
  /\ UNCHANGED nsel

\* the colours and the patterns a drawable is filled with: every value,
\* and a pattern two pixels wide and one high
Colors == {[value |-> v] : v \in Vals}

Patterns ==
  {[width |-> 2, height |-> 1,
    data |-> [p \in Extent(2, 1) |-> (p[1] + 1) % NVals]]}

\* the drawable is filled with a colour or a pattern (gimp_drawable_fill)
Fill ==
  /\ nedit < MaxEdit
  /\ \/ \E color \in Colors :
          Becomes(gimp_drawable_fill(World, color, NULL), "fill")
     \/ \E pattern \in Patterns :
          Becomes(gimp_drawable_fill(World, NULL, pattern), "fill")
  /\ UNCHANGED nsel

\* =========================================================== gimpdrawable.c
\* The drawable as a floating-selection target: its source graph
\* (source_node and children), its item graph (node, mode_node), the
\* layers that may float over it and the signal handlers it has connected.
VARIABLES
  target,      \* GimpDrawable / GimpDrawablePrivate of the target
  layers,      \* the GimpLayers that can be attached as floating selection
  handlers,    \* handlers[l][sig]: connections of the target to layer l
  image_fs,    \* gimp_image_get_floating_selection()
  gemitted,    \* "update" signals the target emitted in the last operation
  gop,         \* the last operation
  nmove,       \* number of moves of a layer so far
  ghist        \* history: the operation before, wiring at earlier points

gvars == <<target, layers, handlers, image_fs, gemitted, gop, nmove, ghist>>

vars == <<mapvars, gvars>>

Layers  == {"L1", "L2"}
NoLayer == "none"

\* positions, blend modes and opacities a layer is given
LayerOffsets == {0, W}
LayerModes   == {"normal", "multiply"}
Opacities    == {50, 100}

\* the input pads of the source graph and what may feed them: a node name,
\* a layer id (that layer's own source node) or "none"
SourcePads == {"output", "fs_crop.input", "fs_offset.input",
               "fs_mode.input", "fs_mode.aux"}

\* the GeglBuffers a target is given: extent and identity
InitialBuffer == [width |-> W, height |-> H, tag |-> "initial"]
NewBuffers ==
  {[width |-> W, height |-> H, tag |-> "same_size"],
   [width |-> 1, height |-> 1, tag |-> "small"],
   [width |-> W + 1, height |-> H, tag |-> "wide"]}

\* the buffers a target is given: a new one, or the one it holds
Buffers == NewBuffers \cup {InitialBuffer}

\* the offsets a target is given
TargetOffsets == {<<0, 0>>, <<W, 0>>, <<0, 1>>}

GWorld == [t |-> target, ls |-> layers, h |-> handlers, ifs |-> image_fs,
           out |-> <<>>]

gimp_drawable_get_floating_sel(g) == g.t.floating_selection

\* variant: the rectangle is not moved by the layer's offset
gimp_drawable_fs_update_unmoved(g, fs, x, y, width, height) ==
  LET r == gimp_rectangle_intersect(
             Rect(x, y, width, height),
             Rect(g.t.offset_x, g.t.offset_y, g.t.width, g.t.height))
  IN  IF r # NULL
        THEN [g EXCEPT !.out =
                Append(@, Rect(r.x - g.t.offset_x, r.y - g.t.offset_y,
                               r.width, r.height))]
        ELSE g

\* variant: the rectangle is forwarded in image coordinates
gimp_drawable_fs_update_untranslated(g, fs, x, y, width, height) ==
  LET r == gimp_rectangle_intersect(
             Rect(x + g.ls[fs].offset_x, y + g.ls[fs].offset_y,
                  width, height),
             Rect(g.t.offset_x, g.t.offset_y, g.t.width, g.t.height))
  IN  IF r # NULL THEN [g EXCEPT !.out = Append(@, r)] ELSE g

\* gimp_drawable_fs_update(): forward an update of the floating selection
gimp_drawable_fs_update(g, fs, x, y, width, height) ==
  LET r == gimp_rectangle_intersect(
             Rect(x + g.ls[fs].offset_x, y + g.ls[fs].offset_y,
                  width, height),
             Rect(g.t.offset_x, g.t.offset_y, g.t.width, g.t.height))
  IN  IF r # NULL
        THEN [g EXCEPT !.out =
                Append(@, Rect(r.x - g.t.offset_x, r.y - g.t.offset_y,
                               r.width, r.height))]
        ELSE g

\* gimp_drawable_sync_source_node(), fs && ! detach_fs, no crop node yet:
\* move the layer's source node into the target's graph and build
\* crop -> translate -> mode with the buffer source as the mode's input
SyncInsert(g, fs) ==
  [g EXCEPT
     !.ls[fs].source_node   = TRUE,
     !.ls[fs].offset_input  = IF g.ls[fs].layer_offset_node
                                THEN FALSE ELSE @,
     !.ls[fs].source_parent = "target",
     !.t.children       = @ \cup {fs, "fs_crop", "fs_offset", "fs_mode"},
     !.t.fs_crop_node   = [x |-> 0, y |-> 0, width |-> 0, height |-> 0],
     !.t.fs_offset_node = [x |-> 0, y |-> 0],
     !.t.fs_mode_node   = [mode |-> "normal", opacity |-> 100],
     !.t.sconn = [@ EXCEPT !["fs_crop.input"]   = fs,
                           !["fs_offset.input"] = "fs_crop",
                           !["fs_mode.input"]   = "buffer_source",
                           !["fs_mode.aux"]     = "fs_offset",
                           !["output"]          = "fs_mode"],
     !.h[fs].notify = @ + 1]

\* variant: the crop and the translation leave out the layer's offset
SyncParams_nooverlay(g, fs) ==
  [g EXCEPT
     !.t.fs_crop_node   = [x      |-> g.t.offset_x,
                           y      |-> g.t.offset_y,
                           width  |-> g.t.width,
                           height |-> g.t.height],
     !.t.fs_offset_node = [x |-> - g.t.offset_x,
                           y |-> - g.t.offset_y],
     !.t.fs_mode_node   = [mode    |-> g.ls[fs].mode,
                           opacity |-> g.ls[fs].opacity]]

\* variant: the translation repeats the crop origin
SyncParams_sameorigin(g, fs) ==
  [g EXCEPT
     !.t.fs_crop_node   = [x      |-> g.t.offset_x - g.ls[fs].offset_x,
                           y      |-> g.t.offset_y - g.ls[fs].offset_y,
                           width  |-> g.t.width,
                           height |-> g.t.height],
     !.t.fs_offset_node = [x |-> g.t.offset_x - g.ls[fs].offset_x,
                           y |-> g.t.offset_y - g.ls[fs].offset_y],
     !.t.fs_mode_node   = [mode    |-> g.ls[fs].mode,
                           opacity |-> g.ls[fs].opacity]]

\* gimp_drawable_sync_source_node(), fs && ! detach_fs: the parameters
SyncParams(g, fs) ==
  [g EXCEPT
     !.t.fs_crop_node   = [x      |-> g.t.offset_x - g.ls[fs].offset_x,
                           y      |-> g.t.offset_y - g.ls[fs].offset_y,
                           width  |-> g.t.width,
                           height |-> g.t.height],
     !.t.fs_offset_node = [x |-> g.ls[fs].offset_x - g.t.offset_x,
                           y |-> g.ls[fs].offset_y - g.t.offset_y],
     !.t.fs_mode_node   = [mode    |-> g.ls[fs].mode,
                           opacity |-> g.ls[fs].opacity]]

\* variant: the layer's source node is not plugged back into its graph
SyncRemove_noreplug(g, fs) ==
  [g EXCEPT
     !.ls[fs].source_parent = "none",
     !.t.children       = @ \ {fs, "fs_crop", "fs_offset", "fs_mode"},
     !.t.fs_crop_node   = NULL,
     !.t.fs_offset_node = NULL,
     !.t.fs_mode_node   = NULL,
     !.t.sconn = [@ EXCEPT !["fs_crop.input"]   = "none",
                           !["fs_offset.input"] = "none",
                           !["fs_mode.input"]   = "none",
                           !["fs_mode.aux"]     = "none"],
     !.h[fs].notify = 0]

\* gimp_drawable_sync_source_node(), else branch with a crop node: take
\* the three nodes down and plug the layer's source node back
SyncRemove(g, fs) ==
  [g EXCEPT
     !.ls[fs].source_node   = TRUE,
     !.ls[fs].source_parent = IF g.ls[fs].layer_offset_node
                                THEN "own" ELSE "none",
     !.ls[fs].offset_input  = IF g.ls[fs].layer_offset_node
                                THEN TRUE ELSE @,
     !.t.children       = @ \ {fs, "fs_crop", "fs_offset", "fs_mode"},
     !.t.fs_crop_node   = NULL,
     !.t.fs_offset_node = NULL,
     !.t.fs_mode_node   = NULL,
     !.t.sconn = [@ EXCEPT !["fs_crop.input"]   = "none",
                           !["fs_offset.input"] = "none",
                           !["fs_mode.input"]   = "none",
                           !["fs_mode.aux"]     = "none"],
     !.h[fs].notify = 0]

\* variant: the buffer source is not connected to the output proxy again
gimp_drawable_sync_source_node_nodirect(g, detach_fs) ==
  LET fs == gimp_drawable_get_floating_sel(g)
  IN
  IF ~ g.t.source_node THEN g
  ELSE IF fs # NoLayer /\ ~ detach_fs
    THEN SyncParams(IF g.t.fs_crop_node = NULL THEN SyncInsert(g, fs)
                    ELSE g, fs)
    ELSE IF g.t.fs_crop_node # NULL THEN SyncRemove(g, fs) ELSE g

\* gimp_drawable_sync_source_node()
gimp_drawable_sync_source_node(g, detach_fs) ==
  LET fs == gimp_drawable_get_floating_sel(g)
  IN
  IF ~ g.t.source_node THEN g
  ELSE IF fs # NoLayer /\ ~ detach_fs
    THEN SyncParams(IF g.t.fs_crop_node = NULL THEN SyncInsert(g, fs)
                    ELSE g, fs)
    ELSE LET g1 == IF g.t.fs_crop_node # NULL THEN SyncRemove(g, fs) ELSE g
         IN  [g1 EXCEPT !.t.sconn["output"] = "buffer_source"]

\* variant: a change of opacity is not followed
gimp_drawable_fs_notify_noopacity(g, pspec) ==
  IF pspec \in {"offset-x", "offset-y", "visible", "mode"}
    THEN gimp_drawable_sync_source_node(g, FALSE)
    ELSE g

\* gimp_drawable_fs_notify(): the target's handler of the layer's "notify"
gimp_drawable_fs_notify(g, pspec) ==
  IF pspec \in {"offset-x", "offset-y", "visible", "mode", "opacity"}
    THEN gimp_drawable_sync_source_node(g, FALSE)
    ELSE g

\* variant: the new graph is not synchronised with the floating selection
gimp_drawable_get_source_node_nosync(g) ==
  IF g.t.source_node THEN g
  ELSE [g EXCEPT !.t.source_node = TRUE,
                 !.t.buffer_source_node = TRUE,
                 !.t.source_buffer = g.t.buffer,
                 !.t.children = {"buffer_source"}]

\* gimp_drawable_get_source_node()
gimp_drawable_get_source_node(g) ==
  IF g.t.source_node THEN g
  ELSE gimp_drawable_sync_source_node(
         [g EXCEPT !.t.source_node = TRUE,
                   !.t.buffer_source_node = TRUE,
                   !.t.source_buffer = g.t.buffer,
                   !.t.children = {"buffer_source"}],
         FALSE)

\* variant: the check for an already bound floating selection is missing
gimp_drawable_attach_floating_sel_unguarded(g, floating_sel) ==
  IF ~ g.t.attached THEN g
  ELSE
    LET g1 == gimp_drawable_sync_source_node(
                [g EXCEPT !.t.floating_selection = floating_sel,
                          !.ifs = floating_sel], FALSE)
        g2 == [g1 EXCEPT !.h[floating_sel].update = @ + 1]
    IN  gimp_drawable_fs_update(g2, floating_sel, 0, 0,
                                g2.ls[floating_sel].width,
                                g2.ls[floating_sel].height)

\* gimp_drawable_attach_floating_sel()
gimp_drawable_attach_floating_sel(g, floating_sel) ==
  IF ~ g.t.attached THEN g
  ELSE IF gimp_drawable_get_floating_sel(g) # NoLayer THEN g
  ELSE
    LET g1 == gimp_drawable_sync_source_node(
                [g EXCEPT !.t.floating_selection = floating_sel,
                          !.ifs = floating_sel], FALSE)
        g2 == [g1 EXCEPT !.h[floating_sel].update = @ + 1]
    IN  gimp_drawable_fs_update(g2, floating_sel, 0, 0,
                                g2.ls[floating_sel].width,
                                g2.ls[floating_sel].height)

\* variant: the update handler stays connected to the detached layer
gimp_drawable_detach_floating_sel_subscribed(g) ==
  LET floating_sel == g.t.floating_selection
  IN
  IF floating_sel = NoLayer THEN g
  ELSE
    LET g1 == gimp_drawable_sync_source_node(g, TRUE)
        g3 == gimp_drawable_fs_update(g1, floating_sel, 0, 0,
                                      g1.ls[floating_sel].width,
                                      g1.ls[floating_sel].height)
    IN  [g3 EXCEPT !.ifs = NoLayer,
                   !.t.floating_selection = NoLayer]

\* variant: a detach with nothing bound is carried out on the target alone
gimp_drawable_detach_floating_sel_unguarded(g) ==
  LET floating_sel == g.t.floating_selection
  IN
  IF floating_sel = NoLayer
    THEN LET g1 == gimp_drawable_sync_source_node(g, TRUE)
         IN  [g1 EXCEPT !.ifs = NoLayer,
                        !.out = Append(@, Rect(0, 0, g.t.width, g.t.height))]
  ELSE
    LET g1 == gimp_drawable_sync_source_node(g, TRUE)
        g2 == [g1 EXCEPT !.h[floating_sel].update = 0]
        g3 == gimp_drawable_fs_update(g2, floating_sel, 0, 0,
                                      g2.ls[floating_sel].width,
                                      g2.ls[floating_sel].height)
    IN  [g3 EXCEPT !.ifs = NoLayer,
                   !.t.floating_selection = NoLayer]

\* gimp_drawable_detach_floating_sel()
gimp_drawable_detach_floating_sel(g) ==
  LET floating_sel == g.t.floating_selection
  IN
  IF floating_sel = NoLayer THEN g
  ELSE
    LET g1 == gimp_drawable_sync_source_node(g, TRUE)
        g2 == [g1 EXCEPT !.h[floating_sel].update = 0]
        g3 == gimp_drawable_fs_update(g2, floating_sel, 0, 0,
                                      g2.ls[floating_sel].width,
                                      g2.ls[floating_sel].height)
    IN  [g3 EXCEPT !.ifs = NoLayer,
                   !.t.floating_selection = NoLayer]

\* the state in which gimp_drawable_attach_floating_sel() calls
\* gimp_drawable_fs_update(): binding set, graph synchronised, handler
\* connected
AtAttachUpdate(g, floating_sel) ==
  LET g1 == gimp_drawable_sync_source_node(
              [g EXCEPT !.t.floating_selection = floating_sel,
                        !.ifs = floating_sel], FALSE)
  IN  [g1 EXCEPT !.h[floating_sel].update = @ + 1]

\* the state in which gimp_drawable_detach_floating_sel() calls
\* gimp_drawable_fs_update(): graph synchronised with detach_fs, handler
\* disconnected, binding not yet cleared
AtDetachUpdate(g) ==
  LET g1 == gimp_drawable_sync_source_node(g, TRUE)
  IN  [g1 EXCEPT !.h[g.t.floating_selection].update = 0]

\* variant: the item graph is built through the mode node whatever the
\* visibility
gimp_drawable_get_node_alwaysmode(g) ==
  [g EXCEPT !.t.node = TRUE,
            !.t.mode_node = TRUE,
            !.t.nconn = [mode_input |-> "input", output |-> "mode"]]

\* gimp_drawable_get_node(): build the item graph
gimp_drawable_get_node(g) ==
  [g EXCEPT !.t.node = TRUE,
            !.t.mode_node = TRUE,
            !.t.nconn = IF g.t.visible
                          THEN [mode_input |-> "input", output |-> "mode"]
                          ELSE [mode_input |-> "none",  output |-> "input"]]

\* variant: showing the drawable reconnects the mode node's input only
gimp_drawable_visibility_changed_half(g) ==
  IF g.t.node
    THEN IF g.t.visible
           THEN [g EXCEPT !.t.nconn.mode_input = "input"]
           ELSE [g EXCEPT !.t.nconn = [mode_input |-> "none",
                                       output |-> "input"]]
    ELSE g

\* gimp_drawable_visibility_changed()
gimp_drawable_visibility_changed(g) ==
  IF g.t.node
    THEN IF g.t.visible
           THEN [g EXCEPT !.t.nconn = [mode_input |-> "input",
                                       output |-> "mode"]]
           ELSE [g EXCEPT !.t.nconn = [mode_input |-> "none",
                                       output |-> "input"]]
    ELSE g

\* variant: the item keeps its size when it is given a buffer
gimp_drawable_real_set_buffer_keepsize(g, push_undo, buffer, offset_x, offset_y) ==
  LET g1 == IF push_undo
              THEN [g EXCEPT !.out = Append(@, [sig |-> "undo_push_mod"])]
              ELSE g
  IN  [g1 EXCEPT !.t.buffer   = buffer,
                 !.t.offset_x = offset_x,
                 !.t.offset_y = offset_y,
                 !.t.source_buffer = IF g.t.buffer_source_node
                                       THEN buffer ELSE @]

\* gimp_drawable_real_set_buffer(): the new buffer replaces the old one,
\* the item takes the offset given and the buffer's size, and the buffer
\* source node, if there is one, reads the new buffer
gimp_drawable_real_set_buffer(g, push_undo, buffer, offset_x, offset_y) ==
  LET g1 == IF push_undo
              THEN [g EXCEPT !.out = Append(@, [sig |-> "undo_push_mod"])]
              ELSE g
  IN  [g1 EXCEPT !.t.buffer   = buffer,
                 !.t.offset_x = offset_x,
                 !.t.offset_y = offset_y,
                 !.t.width    = buffer.width,
                 !.t.height   = buffer.height,
                 !.t.source_buffer = IF g.t.buffer_source_node
                                       THEN buffer ELSE @]

\* gimp_drawable_set_buffer_full()
gimp_drawable_set_buffer_full(g, push_undo, buffer, offset_x, offset_y) ==
  LET undo == push_undo /\ g.t.attached
      g1 == IF \/ g.t.width    # buffer.width
               \/ g.t.height   # buffer.height
               \/ g.t.offset_x # offset_x
               \/ g.t.offset_y # offset_y
              THEN [g EXCEPT !.out =
                      Append(@, Rect(0, 0, g.t.width, g.t.height))]
              ELSE g
      g2 == gimp_drawable_real_set_buffer(g1, undo, buffer,
                                          offset_x, offset_y)
  IN  [g2 EXCEPT !.out = Append(@, Rect(0, 0, g2.t.width, g2.t.height))]

\* gimp_drawable_set_buffer(): the offset stays
gimp_drawable_set_buffer(g, push_undo, buffer) ==
  gimp_drawable_set_buffer_full(g, push_undo /\ g.t.attached, buffer,
                                g.t.offset_x, g.t.offset_y)

\* what the output proxy of the source graph yields: the target's buffer,
\* or the layer cropped, moved and blended over the target's buffer
RECURSIVE Reads(_, _)
Reads(t, n) ==
  CASE n = "buffer_source" -> <<"target">>
    [] n = "fs_mode"   -> <<"blend", t.fs_mode_node,
                            Reads(t, t.sconn["fs_mode.input"]),
                            Reads(t, t.sconn["fs_mode.aux"])>>
    [] n = "fs_offset" -> <<"translate", t.fs_offset_node,
                            Reads(t, t.sconn["fs_offset.input"])>>
    [] n = "fs_crop"   -> <<"crop", t.fs_crop_node,
                            Reads(t, t.sconn["fs_crop.input"])>>
    [] OTHER           -> <<n>>

ReadThrough(t) == Reads(t, t.sconn["output"])

\* ------------------------------------------------------ the graph machine
InitGraph ==
  /\ target = [attached |-> TRUE, visible |-> TRUE,
               offset_x |-> 0, offset_y |-> 0, width |-> W, height |-> H,
               buffer |-> InitialBuffer, source_buffer |-> NULL,
               floating_selection |-> NoLayer,
               source_node |-> FALSE, buffer_source_node |-> FALSE,
               fs_crop_node |-> NULL, fs_offset_node |-> NULL,
               fs_mode_node |-> NULL,
               children |-> {},
               sconn |-> [pad \in SourcePads |-> "none"],
               node |-> FALSE, mode_node |-> FALSE,
               nconn |-> [mode_input |-> "none", output |-> "none"]]
  /\ \E withnode \in SUBSET Layers :
       layers = [l \in Layers |->
                   [offset_x |-> 0, offset_y |-> 0, width |-> 1, height |-> 1,
                    mode |-> "normal", opacity |-> 100, visible |-> TRUE,
                    source_node       |-> l \in withnode,
                    layer_offset_node |-> l \in withnode,
                    source_parent     |-> IF l \in withnode THEN "own"
                                          ELSE "none",
                    offset_input      |-> l \in withnode]]
  /\ handlers = [l \in Layers |-> [update |-> 0, notify |-> 0]]
  /\ image_fs = NoLayer
  /\ gemitted = <<>>
  /\ gop = "new"
  /\ nmove = 0
  /\ ghist = [prev |-> "new", wiring |-> NULL, fs |-> NoLayer]

\* the history after operation `name`:
\*   prev      the operation before this one
\*   wiring    the item graph's connections before the drawable was hidden
\*   fs        the floating selection the operation found bound
GHistAfter(name) ==
  [prev   |-> gop,
   wiring |-> IF name = "hide" THEN target.nconn
              ELSE IF name = "show" THEN ghist.wiring ELSE NULL,
   fs     |-> target.floating_selection]

GBecomes(g, name) ==
  /\ target'   = g.t
  /\ layers'   = g.ls
  /\ handlers' = g.h
  /\ image_fs' = g.ifs
  /\ gemitted' = g.out
  /\ gop'      = name
  /\ nmove'    = IF name = "move" THEN nmove + 1 ELSE nmove
  /\ ghist'    = GHistAfter(name)

GAttach ==
  \E l \in Layers :
    GBecomes(gimp_drawable_attach_floating_sel(GWorld, l), "attach")

GDetach ==
  GBecomes(gimp_drawable_detach_floating_sel(GWorld), "detach")

GGetSourceNode ==
  /\ ~ target.source_node
  /\ GBecomes(gimp_drawable_get_source_node(GWorld), "get_source_node")

\* gimp_item_get_node() on an item that has no node yet
GGetNode ==
  /\ ~ target.node
  /\ GBecomes(gimp_drawable_get_node(GWorld), "get_node")

\* gimp_item_set_visible(): sets the flag and runs visibility_changed
GSetVisible ==
  \E v \in BOOLEAN \ {target.visible} :
    GBecomes(gimp_drawable_visibility_changed(
               [GWorld EXCEPT !.t.visible = v]),
             IF v THEN "show" ELSE "hide")

\* the notify handlers connected to layer l run for property pspec
RECURSIVE Notify(_, _, _)
Notify(g, n, pspec) ==
  IF n = 0 THEN g ELSE Notify(gimp_drawable_fs_notify(g, pspec), n - 1, pspec)

\* a property of a layer is set and the layer emits "notify"
GLayerSet ==
  \E l \in Layers :
    \/ \E x \in LayerOffsets \ {layers[l].offset_x} :
         GBecomes(Notify([GWorld EXCEPT !.ls[l].offset_x = x],
                         handlers[l].notify, "offset-x"), "notify")
    \/ \E m \in LayerModes \ {layers[l].mode} :
         GBecomes(Notify([GWorld EXCEPT !.ls[l].mode = m],
                         handlers[l].notify, "mode"), "notify")
    \/ \E o \in Opacities \ {layers[l].opacity} :
         GBecomes(Notify([GWorld EXCEPT !.ls[l].opacity = o],
                         handlers[l].notify, "opacity"), "notify")
    \/ GBecomes(Notify(GWorld, handlers[l].notify, "name"), "notify_other")

\* the update handlers connected to layer l run for a rectangle
RECURSIVE Forward(_, _, _)
Forward(g, n, l) ==
  IF n = 0 THEN g
  ELSE Forward(gimp_drawable_fs_update(g, l, 0, 0, g.ls[l].width,
                                       g.ls[l].height), n - 1, l)

\* a layer emits "update" for its whole extent
GLayerUpdate ==
  \E l \in Layers :
    GBecomes(Forward(GWorld, handlers[l].update, l), "layer_update")

\* ---------------------------------------------------------- specifications
\* the preview session, the graph left alone
Init ==
  /\ InitMap
  /\ InitGraph
  /\ \A l \in Layers : layers[l].layer_offset_node

Next ==
  \/ Apply /\ UNCHANGED gvars
  \/ Tick /\ UNCHANGED gvars
  \/ Commit /\ UNCHANGED gvars
  \/ Clear /\ UNCHANGED gvars
  \/ Abort /\ UNCHANGED gvars
  \/ SelectionChange /\ UNCHANGED gvars
  \/ Remove /\ UNCHANGED gvars
  \/ ConvertType /\ UNCHANGED gvars
  \/ Fill /\ UNCHANGED gvars

Spec == Init /\ [][Next]_vars

\* the rectangles callers ask an undo step for: the whole drawable, one
\* pixel, a pixel right of the drawable, a rectangle of no width, and one
\* that reaches over the right edge
UndoRects ==
  {Rect(0, 0, W, H), Rect(0, 0, 1, 1), Rect(W, 0, 1, 1), Rect(0, 0, 0, 1),
   Rect(W - 1, 0, 2, 1)}

\* the snapshot buffer a caller supplies for rectangle r
Snapshot(r) ==
  [gegl_buffer_new(r.width, r.height, "RGB") EXCEPT
     !.data = [p \in Extent(r.width, r.height) |-> NVals - 1]]

\* gimp_drawable_push_undo() called from outside the session
PushUndo ==
  /\ Len(image.undo) < MaxUndo
  /\ \E r \in UndoRects, given \in BOOLEAN :
       Becomes(gimp_drawable_push_undo(World,
                                       IF given THEN Snapshot(r) ELSE NULL,
                                       r.x, r.y, r.width, r.height),
               "push_undo")
  /\ UNCHANGED nsel

\* the buffers exchanged with the drawable: one pixel, and one row
SwapBuffers ==
  {[gegl_buffer_new(1, 1, "RGB") EXCEPT
      !.data = [p \in Extent(1, 1) |-> NVals - 1]],
   [gegl_buffer_new(W, 1, "RGB") EXCEPT
      !.data = [p \in Extent(W, 1) |-> p[1] % NVals]]}

\* the positions at which buffer lies inside the drawable
SwapPositions(buffer) ==
  {p \in Pixels : /\ p[1] + buffer.width <= W
                  /\ p[2] + buffer.height <= H}

\* gimp_drawable_swap_pixels(), as the undo system calls it
SwapPixels ==
  /\ \E buffer \in SwapBuffers :
       \E p \in SwapPositions(buffer) :
         Becomes(gimp_drawable_swap_pixels(World, buffer, p[1], p[2]).s,
                 "swap_pixels")
  /\ UNCHANGED nsel

NextPixels ==
  \/ PushUndo /\ UNCHANGED gvars
  \/ SwapPixels /\ UNCHANGED gvars
  \/ Remove /\ UNCHANGED gvars

SpecPixels == Init /\ [][NextPixels]_vars

\* pixels exchanged with the drawable, before and after it is removed
NextSwap ==
  \/ SwapPixels /\ UNCHANGED gvars
  \/ Remove /\ UNCHANGED gvars

SpecSwap == Init /\ [][NextSwap]_vars

\* the preview session with a selection that may move to a region of the
\* same size at another origin
SelectRegion ==
  /\ nsel < MaxSel
  /\ \E m \in {NoSel, LeftCol, RightCol} \ {image.mask} :
       Becomes([World EXCEPT !.img.mask = m], "select")
  /\ nsel' = nsel + 1

NextRegions ==
  \/ Apply /\ UNCHANGED gvars
  \/ Tick /\ UNCHANGED gvars
  \/ Commit /\ UNCHANGED gvars
  \/ Clear /\ UNCHANGED gvars
  \/ Abort /\ UNCHANGED gvars
  \/ SelectRegion /\ UNCHANGED gvars
  \/ Remove /\ UNCHANGED gvars
  \/ ConvertType /\ UNCHANGED gvars
  \/ Fill /\ UNCHANGED gvars

SpecRegions == Init /\ [][NextRegions]_vars

\* the preview session with no operation intervening in a scheduled run:
\* while an idle source is scheduled only the main loop acts, and it keeps
\* dispatching the source (g_idle_add: the callback is called again and
\* again until it returns FALSE)
Quiet == image_map.idle_id = 0

NextRun ==
  \/ Quiet /\ Apply /\ UNCHANGED gvars
  \/ Tick /\ UNCHANGED gvars
  \/ Quiet /\ Commit /\ UNCHANGED gvars
  \/ Quiet /\ Clear /\ UNCHANGED gvars
  \/ Quiet /\ Abort /\ UNCHANGED gvars
  \/ Quiet /\ SelectionChange /\ UNCHANGED gvars
  \/ Quiet /\ Remove /\ UNCHANGED gvars
  \/ Quiet /\ ConvertType /\ UNCHANGED gvars
  \/ Quiet /\ Fill /\ UNCHANGED gvars

SpecRun == Init /\ [][NextRun]_vars /\ WF_vars(Tick /\ UNCHANGED gvars)

\* the graph of the target, the preview session left alone
InitG ==
  /\ InitMap
  /\ image.mask = NoSel
  /\ drawable.format = "RGB"
  /\ image_map.operation.pads = {"input", "output"}
  /\ InitGraph

NextG ==
  \/ GAttach /\ UNCHANGED mapvars
  \/ GDetach /\ UNCHANGED mapvars
  \/ GGetSourceNode /\ UNCHANGED mapvars
  \/ GGetNode /\ UNCHANGED mapvars
  \/ GSetVisible /\ UNCHANGED mapvars
  \/ GLayerSet /\ UNCHANGED mapvars
  \/ GLayerUpdate /\ UNCHANGED mapvars

SpecGraph == InitG /\ [][NextG]_vars

\* the target is given buffers: its size, its offset and the buffer its
\* source graph reads
GSetBuffer ==
  \E buffer \in Buffers, push_undo \in BOOLEAN :
    GBecomes(gimp_drawable_set_buffer(GWorld, push_undo, buffer),
             "set_buffer")

GSetBufferFull ==
  \E buffer \in Buffers, push_undo \in BOOLEAN, off \in TargetOffsets :
    GBecomes(gimp_drawable_set_buffer_full(GWorld, push_undo, buffer,
                                           off[1], off[2]),
             "set_buffer_full")

\* the rectangles, in its own coordinates, a layer emits "update" for
UpdateRects ==
  {Rect(0, 0, 1, 1), Rect(1, 1, 1, 1), Rect(0, 0, W + 1, H), Rect(0, 0, 0, 0)}

\* the update handlers connected to layer l run for rectangle r
RECURSIVE ForwardRect(_, _, _, _)
ForwardRect(g, n, l, r) ==
  IF n = 0 THEN g
  ELSE ForwardRect(gimp_drawable_fs_update(g, l, r.x, r.y, r.width, r.height),
                   n - 1, l, r)

\* a layer emits "update" for a rectangle
GLayerUpdateRect ==
  \E l \in Layers, r \in UpdateRects :
    GBecomes(ForwardRect(GWorld, handlers[l].update, l, r), "layer_update")

\* a layer is moved: its offset-x or offset-y property changes
GLayerMove ==
  /\ nmove < MaxMove
  /\ \E l \in Layers :
       \/ \E x \in LayerOffsets \ {layers[l].offset_x} :
            GBecomes(Notify([GWorld EXCEPT !.ls[l].offset_x = x],
                            handlers[l].notify, "offset-x"), "move")
       \/ \E y \in {0, 1} \ {layers[l].offset_y} :
            GBecomes(Notify([GWorld EXCEPT !.ls[l].offset_y = y],
                            handlers[l].notify, "offset-y"), "move")

NextBuffer ==
  \/ GSetBuffer /\ UNCHANGED mapvars
  \/ GSetBufferFull /\ UNCHANGED mapvars
  \/ GAttach /\ UNCHANGED mapvars
  \/ GDetach /\ UNCHANGED mapvars
  \/ GGetSourceNode /\ UNCHANGED mapvars
  \/ GLayerUpdateRect /\ UNCHANGED mapvars
  \/ GLayerMove /\ UNCHANGED mapvars

\* the layers have been shown: each has its item graph
InitNotify ==
  /\ InitG
  /\ \A l \in Layers : layers[l].layer_offset_node

\* the target is given buffers and the layers, shown, move and report
\* updates
SpecBuffer == InitNotify /\ [][NextBuffer]_vars

\* any property of a layer is set and the layer emits "notify" for it
GLayerSetAny ==
  \E l \in Layers :
    \/ \E x \in LayerOffsets \ {layers[l].offset_x} :
         GBecomes(Notify([GWorld EXCEPT !.ls[l].offset_x = x],
                         handlers[l].notify, "offset-x"), "notify")
    \/ \E y \in {0, 1} \ {layers[l].offset_y} :
         GBecomes(Notify([GWorld EXCEPT !.ls[l].offset_y = y],
                         handlers[l].notify, "offset-y"), "notify")
    \/ GBecomes(Notify([GWorld EXCEPT !.ls[l].visible = ~ @],
                       handlers[l].notify, "visible"), "notify")
    \/ \E m \in LayerModes \ {layers[l].mode} :
         GBecomes(Notify([GWorld EXCEPT !.ls[l].mode = m],
                         handlers[l].notify, "mode"), "notify")
    \/ \E o \in Opacities \ {layers[l].opacity} :
         GBecomes(Notify([GWorld EXCEPT !.ls[l].opacity = o],
                         handlers[l].notify, "opacity"), "notify")
    \/ GBecomes(Notify(GWorld, handlers[l].notify, "name"), "notify_other")

NextNotify ==
  \/ GAttach /\ UNCHANGED mapvars
  \/ GDetach /\ UNCHANGED mapvars
  \/ GGetSourceNode /\ UNCHANGED mapvars
  \/ GLayerSetAny /\ UNCHANGED mapvars

SpecNotify == InitNotify /\ [][NextNotify]_vars

\* gimp_drawable_attach_floating_sel (drawable, GIMP_LAYER (drawable)): the
\* target is a layer and is passed as its own floating selection.  All
\* four checks pass; the binding is set, the image's reference is set,
\* and sync builds the triple around the target's own source node when
\* the source graph exists.  The "update" handler is then connected to
\* the target's own "update" signal, so every update that
\* gimp_drawable_fs_update emits re-enters the handler inside the emission
\* and emits the next one: the call does not return, and the process ends
\* when the stack is exhausted, after MaxNest nested emissions.  gemitted
\* holds these updates; no operation follows.
Self == "self"

AttachSelf(g) ==
  IF ~ g.t.attached THEN g
  ELSE IF gimp_drawable_get_floating_sel(g) # NoLayer THEN g
  ELSE
    LET g1 == [g EXCEPT !.t.floating_selection = Self, !.ifs = Self]
        g2 == IF ~ g1.t.source_node THEN g1
              ELSE [g1 EXCEPT
                      !.t.children = @ \cup {"source_node", "fs_crop",
                                             "fs_offset", "fs_mode"},
                      !.t.fs_crop_node = [x |-> 0, y |-> 0,
                                          width  |-> g.t.width,
                                          height |-> g.t.height],
                      !.t.fs_offset_node = [x |-> 0, y |-> 0],
                      !.t.fs_mode_node = [mode |-> "normal",
                                          opacity |-> 100],
                      !.t.sconn =
                         [@ EXCEPT !["fs_crop.input"]   = "source_node",
                                   !["fs_offset.input"] = "fs_crop",
                                   !["fs_mode.input"]   = "buffer_source",
                                   !["fs_mode.aux"]     = "fs_offset",
                                   !["output"]          = "fs_mode"]]
    IN  [g2 EXCEPT !.out = @ \o [i \in 1 .. MaxNest |->
                                   Rect(0, 0, g.t.width, g.t.height)]]

GAttachSelf ==
  GBecomes(AttachSelf(GWorld), "attach_self")

\* the graph of a target that is a layer itself
NextSelf ==
  \/ target.floating_selection # Self /\ GAttach /\ UNCHANGED mapvars
  \/ target.floating_selection # Self /\ GDetach /\ UNCHANGED mapvars
  \/ target.floating_selection # Self /\ GGetSourceNode
       /\ UNCHANGED mapvars
  \/ target.floating_selection # Self /\ GGetNode /\ UNCHANGED mapvars
  \/ target.floating_selection # Self /\ GAttachSelf /\ UNCHANGED mapvars

SpecSelf == InitG /\ [][NextSelf]_vars

\* ================================================================ claims
Range(seq) == {seq[i] : i \in DOMAIN seq}

RectInside(r, outer) ==
  /\ outer # NULL
  /\ r.x >= outer.x /\ r.x + r.width  <= outer.x + outer.width
  /\ r.y >= outer.y /\ r.y + r.height <= outer.y + outer.height

Signals(out) == {out[i].sig : i \in DOMAIN out}

\* whether selection `mask` covers pixel p (no selection covers everything)
Selected(mask, p) == gimp_channel_is_empty(mask) \/ p \in mask

\* apply, ticks only, then a clear that found the scratch in the drawable's
\* format
ClearedAfterRun ==
  /\ op = "clear"
  /\ hist.phase = "cleared"
  /\ "message" \notin Signals(emitted)

\* C1 as stated: apply, any number of ticks, clear leaves every pixel of the
\* applied rectangle equal to its value when that apply was called.
C1_RoundTripBeforeApply ==
  ClearedAfterRun =>
    \A p \in PixelsOf(hist.rect) : drawable.buffer[p] = hist.pre[p]

\* C1 amended: apply, any number of ticks, clear leaves every pixel of the
\* applied rectangle equal to its value when the scratch buffer was last
\* populated (at that apply if no scratch was held or the rectangle
\* differed from the recorded one, at an earlier apply otherwise).
C1_RoundTripRestore ==
  ClearedAfterRun =>
    \A p \in PixelsOf(hist.rect) : drawable.buffer[p] = hist.pop[p]

\* a clear that followed an apply and at least one tick, the tick having
\* changed pixels the clear put back
C1_Witness ==
  /\ ClearedAfterRun
  /\ hist.ticked
  /\ Updates(emitted) = {hist.rect}
  /\ \A p \in PixelsOf(hist.rect) : drawable.buffer[p] = hist.pop[p]

\* C2: whenever a scratch buffer is held, each of its pixels equals the
\* value the drawable had at anchor + position before the pending filter
\* was first applied.
C2_ScratchFidelity ==
  image_map.undo_buffer # NULL =>
    \A q \in DOMAIN image_map.undo_buffer.data :
      image_map.undo_buffer.data[q] =
        hist.orig[<<q[1] + image_map.undo_offset_x,
                    q[2] + image_map.undo_offset_y>>]

\* apply, ticks only, then commit, under a selection that does not change
CommittedAfterRun ==
  /\ op = "commit"
  /\ hist.phase = "committed"
  /\ ~ gimp_channel_is_empty(image.mask)

\* C3 as stated: after apply, all ticks and commit, every pixel of the
\* applied rectangle that the selection excludes equals its value when
\* that apply was called.
C3_ContainmentBeforeApply ==
  CommittedAfterRun =>
    \A p \in PixelsOf(hist.rect) \ image.mask :
      drawable.buffer[p] = hist.pre[p]

\* C3 amended: after apply, all ticks and commit, every pixel of the
\* applied rectangle that the selection excludes equals its value when the
\* scratch buffer was last populated (its value before the preview).
C3_ContainmentRestore ==
  CommittedAfterRun =>
    \A p \in PixelsOf(hist.rect) \ image.mask :
      drawable.buffer[p] = hist.pop[p]

\* a committed run whose rectangle holds an excluded pixel and a selected
\* pixel that carries the filter's output
C3_Witness ==
  /\ CommittedAfterRun
  /\ \E p \in PixelsOf(hist.rect) \ image.mask :
       drawable.buffer[p] = hist.pop[p]
  /\ \E p \in PixelsOf(hist.rect) \cap image.mask :
       drawable.buffer[p] = Filter(hist.pop[p])

\* C4: a commit on an attached drawable that holds a scratch buffer pushes
\* exactly one undo record; its rectangle is the scratch rectangle and its
\* content is what the drawable held there before the first apply of the
\* session.
C4_UndoRecord ==
  [][(op' = "commit" /\ drawable.attached /\ image_map.undo_buffer # NULL) =>
       image'.undo =
         Append(image.undo,
                [rect |-> ScratchRect(image_map),
                 data |-> [q \in DOMAIN image_map.undo_buffer.data |->
                             hist.orig[<<q[1] + image_map.undo_offset_x,
                                         q[2] + image_map.undo_offset_y>>]]])
    ]_vars

\* C5: apply, tick and commit change no pixel outside the rectangle the
\* run was started on, and every chunk they splice lies inside the scratch
\* rectangle.
C5_Frame ==
  [][op' \in {"apply", "tick", "commit"} =>
       /\ \A p \in Pixels :
            drawable'.buffer[p] # drawable.buffer[p] =>
              /\ op' # "apply"
              /\ image_map.processor # NULL
              /\ InRect(p, image_map.processor.rect)
       /\ (vars' # vars) =>
            \A r \in Updates(emitted') :
              RectInside(r, ScratchRect(image_map))
    ]_vars

\* a tick has spliced a chunk of a run that covers part of the drawable
C5_Witness ==
  /\ op = "tick"
  /\ hist.rect # NULL
  /\ hist.rect # Rect(0, 0, W, H)
  /\ Updates(emitted) # {}
  /\ drawable.buffer # hist.pre

\* C6: a commit directly after a commit pushes no undo record, changes no
\* pixel and leaves the session as it was.
C6_IdempotentCommit ==
  [][(op = "commit" /\ op' = "commit") =>
       /\ drawable'  = drawable
       /\ image'     = image
       /\ image_map' = image_map
       /\ main_loop' = main_loop
       /\ (vars' # vars) => emitted' = <<>>
    ]_vars

\* a second commit in a row, the first having pushed an undo record
C6_Witness ==
  /\ op = "commit"
  /\ hist.prev
  /\ Len(image.undo) = 1
  /\ image_map.undo_buffer = NULL
  /\ emitted = <<>>

\* C7: a commit called while a run is scheduled on an attached drawable
\* removes the idle source and runs every remaining tick: each remaining
\* chunk is spliced before the undo record is pushed, the handle is 0 and
\* the processor is released.
C7_CommitDrains ==
  [][(op' = "commit" /\ image_map.idle_id # 0 /\ drawable.attached) =>
       /\ image_map'.idle_id = 0
       /\ image_map'.processor = NULL
       /\ image_map.idle_id \notin main_loop'.sources
       /\ Updates(emitted') = Range(image_map.processor.todo)
       /\ \A i, j \in DOMAIN emitted' :
            (emitted'[i].sig = "update" /\ emitted'[j].sig = "undo_push")
              => i < j
       /\ "undo_push" \in Signals(emitted')
       /\ \A r \in Range(image_map.processor.todo) : \A p \in PixelsOf(r) :
            Selected(image.mask, p) =>
              drawable'.buffer[p] =
                OperationOutput(image_map.operation,
                                image_map.undo_buffer.data[
                                  <<p[1] - image_map.undo_offset_x,
                                    p[2] - image_map.undo_offset_y>>])
    ]_vars

\* a commit that ran both chunks of a run no tick had worked on
C7_Witness ==
  /\ op = "commit"
  /\ hist.phase = "committed"
  /\ ~ hist.ticked
  /\ Cardinality(Updates(emitted)) = 2
  /\ image_map.idle_id = 0
  /\ image_map.processor = NULL


\* ------------------------------------------------- floating selection, graph
\* the layers bound to the target in any way: as its floating selection,
\* through a connected handler, or with their source node in its graph
Bound ==
  {l \in Layers : \/ target.floating_selection = l
                  \/ handlers[l].update > 0
                  \/ handlers[l].notify > 0
                  \/ layers[l].source_parent = "target"
                  \/ l \in target.children}

\* C8: gimp_drawable_attach_floating_sel on a target that has a floating
\* selection bound changes neither the binding, nor the graphs, nor the
\* connected handlers, and emits nothing; at most one layer is ever bound
C8_SingleOverlay ==
  [][/\ (gop' = "attach" /\ target.floating_selection # NoLayer)
          => /\ target' = target
             /\ layers' = layers
             /\ handlers' = handlers
             /\ image_fs' = image_fs
             /\ gemitted' = <<>>
     /\ Cardinality(Bound') <= 1
     /\ \A l \in Layers : handlers'[l].update <= 1
                          /\ handlers'[l].notify <= 1]_vars

\* an attach was refused while a layer was bound with its sub-graph in place
C8_Witness ==
  /\ gop = "attach"
  /\ ghist.fs # NoLayer
  /\ target.floating_selection = ghist.fs
  /\ target.fs_crop_node # NULL
  /\ handlers[ghist.fs].update = 1
  /\ handlers[ghist.fs].notify = 1

\* a detach that found layer ghist.fs bound has just run
Detached == gop = "detach" /\ ghist.fs # NoLayer

\* C9: after a floating selection is detached the target's source graph is
\* direct again (the buffer source feeds the output proxy, no crop,
\* translate or mode node is left, nothing of the layer remains in it),
\* the layer's source node is back in the layer's graph feeding its offset
\* node, no handler stays connected, and reading through the target's
\* graph gives the target's buffer
C9_AttachDetachRoundTrip ==
  Detached =>
    /\ target.floating_selection = NoLayer
    /\ image_fs = NoLayer
    /\ handlers[ghist.fs] = [update |-> 0, notify |-> 0]
    /\ target.source_node =>
         /\ target.sconn = [pad \in SourcePads |->
                              IF pad = "output" THEN "buffer_source"
                              ELSE "none"]
         /\ target.children = {"buffer_source"}
         /\ target.fs_crop_node = NULL
         /\ target.fs_offset_node = NULL
         /\ target.fs_mode_node = NULL
         /\ ReadThrough(target) = <<"target">>
    /\ layers[ghist.fs].source_parent # "target"
    /\ layers[ghist.fs].layer_offset_node =>
         /\ layers[ghist.fs].source_parent = "own"
         /\ layers[ghist.fs].offset_input

\* a layer with a graph of its own was detached from a target whose
\* source graph exists
C9_Witness ==
  /\ Detached
  /\ target.source_node
  /\ layers[ghist.fs].layer_offset_node
  /\ layers[ghist.fs].source_parent = "own"
  /\ ReadThrough(target) = <<"target">>

\* the drawable was hidden and then shown, its item node existing
ShownAfterHidden == gop = "show" /\ ghist.prev = "hide" /\ target.node

\* C10: hiding and then showing a drawable whose item node exists leaves
\* the wiring it had before: the input proxy feeds the mode node and the
\* mode node feeds the output proxy
C10_BypassReversible ==
  ShownAfterHidden =>
    /\ target.nconn = ghist.wiring
    /\ target.nconn = [mode_input |-> "input", output |-> "mode"]

C10_Witness ==
  /\ ShownAfterHidden
  /\ target.visible
  /\ ghist.wiring = [mode_input |-> "input", output |-> "mode"]

\* the crop, translate and mode nodes of the floating selection
HasTriple ==
  /\ target.fs_crop_node # NULL
  /\ target.fs_offset_node # NULL
  /\ target.fs_mode_node # NULL

NoTriple ==
  /\ target.fs_crop_node = NULL
  /\ target.fs_offset_node = NULL
  /\ target.fs_mode_node = NULL

\* C11 as stated: in every state between operations the crop, translate
\* and mode nodes exist if and only if a floating selection is bound, also
\* when the layer was attached before the source graph was created
C11_TripleIffBound ==
  /\ HasTriple \/ NoTriple
  /\ HasTriple <=> target.floating_selection # NoLayer

\* C11, amended: in every state between operations in which the source
\* graph exists, the three nodes exist if and only if a floating selection
\* is bound; while the source graph does not exist none of them exists
C11_TripleIffBoundInGraph ==
  /\ HasTriple \/ NoTriple
  /\ target.source_node =>
       (HasTriple <=> target.floating_selection # NoLayer)
  /\ ~ target.source_node => NoTriple

\* the layer was attached before the source graph existed and
\* gimp_drawable_get_source_node has then built the graph with the triple
C11_Witness ==
  /\ gop = "get_source_node"
  /\ ghist.prev = "attach"
  /\ target.floating_selection # NoLayer
  /\ target.source_node
  /\ HasTriple

\* ------------------------------------------------------------ preview runs
\* the idle sources and the processor alive are those the session refers to
OneRun(loop, im) ==
  /\ Cardinality(loop.sources) <= 1
  /\ loop.sources = IF im.idle_id = 0 THEN {} ELSE {im.idle_id}
  /\ im.processor # NULL => im.idle_id # 0

\* C12: at any time at most one idle source and one processor are alive,
\* both the ones the session holds; an apply called while a run is
\* scheduled removes that run's idle source and releases its processor
\* before the new run, with a new source, is scheduled
C12_SingleRun ==
  [][/\ OneRun(main_loop', image_map')
     /\ (op' = "apply" /\ image_map.idle_id # 0) =>
          /\ image_map.idle_id \notin main_loop'.sources
          /\ image_map'.idle_id # image_map.idle_id
          /\ image_map'.idle_id = 0 => image_map'.processor = NULL
    ]_vars

\* a second apply came while the first run had worked one of its two
\* chunks: the first source is gone, the second run starts over
C12_Witness ==
  /\ op = "apply"
  /\ image.mask = NoSel /\ nsel = 0
  /\ image_map.idle_id = 2
  /\ main_loop.sources = {2}
  /\ Len(image_map.processor.todo) = 2
  /\ \E p \in Pixels : drawable.buffer[p] # hist.orig[p]
  /\ \E p \in Pixels : drawable.buffer[p] = hist.orig[p]

\* C13: an apply on an attached drawable that the selection's bounds do
\* not intersect changes nothing: not the drawable, not the scratch buffer
\* and its anchor, not the idle handle and the processor of a run in
\* progress, and the run's idle source stays scheduled
C13_EmptyApplyNoEffect ==
  [][(/\ op' = "apply"
      /\ drawable.attached
      /\ gimp_item_mask_intersect(World) = NULL)
       => /\ drawable' = drawable
          /\ image_map' = image_map
          /\ main_loop' = main_loop]_vars

\* C14: the rectangle an apply snapshots and processes is the rectangle the
\* caller passed, restricted to the drawable's bounds and the bounds of the
\* selection, and so lies inside the rectangle the caller passed
C14_ClampedToRequest ==
  [][\A visible \in VisibleRects :
       (/\ Becomes(gimp_image_map_apply(World, visible), "apply")
        /\ image_map'.processor # NULL)
         => /\ RectInside(image_map'.processor.rect, visible)
            /\ RectInside(ScratchRect(image_map'), visible)
            /\ image_map'.processor.rect =
                 gimp_rectangle_intersect(visible,
                                          gimp_item_mask_intersect(World))
    ]_vars

\* the operations of the preview session
SessionOps == {"apply", "tick", "commit", "clear", "abort"}

\* C15: while the drawable is not attached to its image, no apply, tick,
\* commit, clear or abort changes a pixel of the drawable or pushes an
\* undo record
C15_DetachedSafety ==
  [][(~ drawable.attached /\ op' \in SessionOps)
       => /\ drawable'.buffer = drawable.buffer
          /\ image'.undo = image.undo
          /\ "undo_push" \notin Signals(emitted')
          /\ "update" \notin Signals(emitted')]_vars

\* a tick ran on a detached drawable whose run had worked one chunk and
\* still held the scratch buffer
C15_Witness ==
  /\ ~ drawable.attached
  /\ op = "tick"
  /\ image_map.undo_buffer # NULL
  /\ image_map.idle_id = 0
  /\ \E p \in Pixels : drawable.buffer[p] # hist.orig[p]
  /\ \E p \in Pixels : drawable.buffer[p] = hist.orig[p]

\* C16: a commit on a drawable that is no longer attached pushes no undo
\* record, changes no pixel and neither pushes nor restores the scratch
\* buffer, which stays as it is with its anchor; nothing is emitted
C16_DetachedCommitSkipped ==
  [][(op' = "commit" /\ ~ drawable.attached)
       => /\ image' = image
          /\ drawable' = drawable
          /\ image_map'.undo_buffer = image_map.undo_buffer
          /\ image_map'.undo_offset_x = image_map.undo_offset_x
          /\ image_map'.undo_offset_y = image_map.undo_offset_y
          /\ emitted' = <<>>]_vars

\* a commit ran on a detached drawable holding a scratch buffer and the
\* partial result of a run
C16_Witness ==
  /\ ~ drawable.attached
  /\ op = "commit"
  /\ image_map.undo_buffer # NULL
  /\ image.undo = <<>>
  /\ \E p \in Pixels : drawable.buffer[p] # hist.orig[p]

\* C17: a clear on an attached drawable whose format differs from the
\* format of the scratch buffer reports the condition with one message,
\* copies nothing back (the pixels stay, no "update" is emitted) and
\* releases the scratch buffer
C17_FormatMismatchClear ==
  [][(/\ op' = "clear"
      /\ drawable.attached
      /\ image_map.undo_buffer # NULL
      /\ image_map.undo_buffer.format # drawable.format)
       => /\ drawable' = drawable
          /\ emitted' = <<[sig |-> "message"]>>
          /\ image_map'.undo_buffer = NULL
          /\ image' = image]_vars

\* the image mode changed while filtered pixels were in the drawable, and
\* the clear that followed left them there
C17_Witness ==
  /\ op = "clear"
  /\ drawable.attached
  /\ drawable.format = "GRAY"
  /\ emitted = <<[sig |-> "message"]>>
  /\ image_map.undo_buffer = NULL
  /\ \E p \in Pixels : drawable.buffer[p] # hist.orig[p]

\* C18: an abort on a drawable that is no longer attached changes nothing:
\* not the scratch buffer and its anchor, not the idle handle, the idle
\* source and the processor, not the drawable
C18_DetachedAbortNoop ==
  [][(op' = "abort" /\ ~ drawable.attached)
       => /\ image_map' = image_map
          /\ main_loop' = main_loop
          /\ drawable' = drawable
          /\ image' = image]_vars

\* how many times signal sig occurs in a signal sequence
Count(out, sig) == Cardinality({i \in DOMAIN out : out[i].sig = sig})

\* C19: every tick emits exactly one flush, whatever its outcome: more
\* work pending, the run complete, or the drawable found detached
C19_FlushEveryTick ==
  [][op' = "tick" => Count(emitted', "flush") = 1]_vars

\* the run has ended with a tick that emitted one flush: no idle handle,
\* no idle source, no processor
Completed ==
  /\ op = "tick"
  /\ image_map.idle_id = 0
  /\ image_map.processor = NULL
  /\ main_loop.sources = {}
  /\ Count(emitted, "flush") = 1

\* C20: a run that apply scheduled, ticked by the main loop with no other
\* operation in between, eventually completes: the idle handle is 0, the
\* processor is released and the completing tick has emitted one flush
C20_Completion == (image_map.idle_id # 0) ~> Completed

\* a run of two chunks has completed: every pixel of its rectangle holds
\* the filter's output
C20_Witness ==
  /\ Completed
  /\ hist.phase = "run"
  /\ hist.rect = Rect(0, 0, W, H)
  /\ image.mask = NoSel
  /\ \A p \in Pixels : drawable.buffer[p] = Filter(hist.pop[p])

\* C21: an attach whose floating selection is the target itself fails: the
\* target has no floating selection bound afterwards, and its graph and
\* the image's floating-selection reference are unchanged
C21_SelfAttachFails ==
  [][gop' = "attach_self"
       => /\ target'.floating_selection = NoLayer
          /\ target' = target
          /\ image_fs' = image_fs
          /\ gemitted' = <<>>]_vars

\* C22: a detach on a target that has no floating selection bound changes
\* nothing: the graphs stay as they are, no update is emitted, the image's
\* floating-selection reference and the handlers are unchanged
C22_DetachUnboundRejected ==
  [][(gop' = "detach" /\ target.floating_selection = NoLayer)
       => /\ target' = target
          /\ layers' = layers
          /\ handlers' = handlers
          /\ image_fs' = image_fs
          /\ gemitted' = <<>>]_vars

\* a second detach followed the detach of a layer from a target whose
\* source graph exists
C22_Witness ==
  /\ gop = "detach"
  /\ ghist.prev = "detach"
  /\ ghist.fs = NoLayer
  /\ target.source_node
  /\ target.sconn["output"] = "buffer_source"
  /\ gemitted = <<>>

\* the step is a property notification of layer l
NotifiedBy(l) ==
  /\ gop' \in {"notify", "notify_other"}
  /\ \A k \in Layers \ {l} : layers'[k] = layers[k]

\* the step is layer l emitting "update" for its extent
UpdatedBy(l) ==
  GBecomes(Forward(GWorld, handlers[l].update, l), "layer_update")

\* C23: once a layer has been detached the target has no handler connected
\* to it: an "update" or a property notification the layer emits later
\* makes the target emit no update and changes nothing in its graph,
\* whether or not the source graph existed while the layer was bound
C23_NoSubscriptionAfterDetach ==
  [][/\ (gop' = "detach" /\ target.floating_selection # NoLayer)
          => handlers'[target.floating_selection] =
               [update |-> 0, notify |-> 0]
     /\ \A l \in Layers :
          (target.floating_selection # l /\ (NotifiedBy(l) \/ UpdatedBy(l)))
            => /\ target' = target
               /\ handlers' = handlers
               /\ gemitted' = <<>>]_vars

\* a layer that had been part of the target's source graph was detached
\* and then moved over the target (a notification), to no effect
C23_Witness ==
  /\ gop = "notify"
  /\ ghist.prev = "detach"
  /\ target.floating_selection = NoLayer
  /\ target.source_node
  /\ gemitted = <<>>
  /\ \E l \in Layers : /\ layers[l].source_node
                       /\ ~ layers[l].layer_offset_node
                       /\ layers[l].offset_x # 0
                       /\ layers[l].source_parent = "none"

\* C24: after every gimp_drawable_set_buffer and
\* gimp_drawable_set_buffer_full call the target's declared width and height
\* are those of the buffer it now holds and its offset is the one the call
\* was given, gimp_drawable_set_buffer keeping the offset it found; no other
\* operation on the target changes its buffer, its size or its offset.  The
\* calls are those with any buffer, the one the target holds included, in
\* every state the target reaches.
C24_BufferGeometry ==
  /\ [](/\ \A buffer \in Buffers, push_undo \in BOOLEAN :
            LET g == gimp_drawable_set_buffer(GWorld, push_undo, buffer)
            IN  /\ g.t.buffer = buffer
                /\ g.t.width = buffer.width
                /\ g.t.height = buffer.height
                /\ g.t.offset_x = target.offset_x
                /\ g.t.offset_y = target.offset_y
        /\ \A buffer \in Buffers, push_undo \in BOOLEAN, off \in TargetOffsets :
            LET g == gimp_drawable_set_buffer_full(GWorld, push_undo, buffer,
                                                   off[1], off[2])
            IN  /\ g.t.buffer = buffer
                /\ g.t.width = buffer.width
                /\ g.t.height = buffer.height
                /\ g.t.offset_x = off[1]
                /\ g.t.offset_y = off[2])
  /\ [][/\ target'.width  = target'.buffer.width
        /\ target'.height = target'.buffer.height
        /\ gop' = "set_buffer"
             => /\ target'.offset_x = target.offset_x
                /\ target'.offset_y = target.offset_y
                /\ target'.buffer \in Buffers
        /\ gop' = "set_buffer_full"
             => /\ <<target'.offset_x, target'.offset_y>> \in TargetOffsets
                /\ target'.buffer \in Buffers
        /\ gop' \notin {"set_buffer", "set_buffer_full"}
             => /\ target'.buffer = target.buffer
                /\ target'.offset_x = target.offset_x
                /\ target'.offset_y = target.offset_y]_vars

\* the first call gave the target the buffer it held, W columns to the
\* right: buffer and size stay and the offset is the one given
C24_Witness ==
  /\ gop = "set_buffer_full"
  /\ ghist.prev = "new"
  /\ target.buffer = InitialBuffer
  /\ target.width = W
  /\ target.height = H
  /\ target.offset_x = W
  /\ target.offset_y = 0

\* C25: an apply over the region r leaves a scratch buffer of r's size.  The
\* buffer is a new one, of the drawable's format, iff there was none or its
\* width or height differed from r's, and otherwise the one held before.
\* It is filled with the drawable's pixels in r and anchored at r's origin
\* iff there was none or r differs from the recorded rectangle; when r is
\* the recorded rectangle the scratch buffer and its anchor stay untouched.
C25_ScratchEnsure ==
  [][LET r   == gimp_item_mask_intersect(World)
         old == image_map.undo_buffer
         new == image_map'.undo_buffer
     IN  (op' = "apply" /\ drawable.attached /\ r # NULL)
           => /\ new # NULL
              /\ new.width = r.width
              /\ new.height = r.height
              /\ IF old = NULL \/ old.width # r.width \/ old.height # r.height
                   THEN new.format = drawable.format
                   ELSE new.format = old.format
              /\ IF old = NULL \/ ScratchRect(image_map) # r
                   THEN /\ new.data =
                             [q \in Extent(r.width, r.height) |->
                                drawable.buffer[<<q[1] + r.x, q[2] + r.y>>]]
                        /\ image_map'.undo_offset_x = r.x
                        /\ image_map'.undo_offset_y = r.y
                   ELSE /\ new = old
                        /\ image_map'.undo_offset_x = image_map.undo_offset_x
                        /\ image_map'.undo_offset_y = image_map.undo_offset_y]_vars

\* an apply over the recorded rectangle, after ticks changed the drawable:
\* the scratch buffer still holds the pixels it was filled with
C25_Witness ==
  /\ op = "apply"
  /\ hist.phase = "run"
  /\ image_map.undo_buffer # NULL
  /\ \E q \in Extent(image_map.undo_buffer.width,
                     image_map.undo_buffer.height) :
       image_map.undo_buffer.data[q] #
         drawable.buffer[<<q[1] + image_map.undo_offset_x,
                           q[2] + image_map.undo_offset_y>>]

\* C26: an apply while a run is scheduled, over the region the scratch
\* buffer was recorded for, takes the run's idle source out of the main
\* loop and puts no pixel back: the drawable's pixels, the chunks the
\* cancelled run spliced among them, and the scratch buffer are what they
\* were before the call, and the only idle source left is a new run over
\* the whole region.
C26_ReapplyKeepsPixels ==
  [][LET r == gimp_item_mask_intersect(World)
     IN  (/\ op' = "apply"
          /\ image_map.idle_id # 0
          /\ drawable.attached
          /\ r # NULL
          /\ ScratchRect(image_map) = r)
           => /\ drawable'.buffer = drawable.buffer
              /\ image_map'.undo_buffer = image_map.undo_buffer
              /\ image_map'.undo_offset_x = image_map.undo_offset_x
              /\ image_map'.undo_offset_y = image_map.undo_offset_y
              /\ image_map.idle_id \notin main_loop'.sources
              /\ image_map'.idle_id # 0
              /\ main_loop'.sources = {image_map'.idle_id}
              /\ image_map'.processor = [rect |-> r, todo |-> Chunks(r)]
              /\ emitted' = <<>>]_vars

\* the second apply came when the first run had spliced the top row of the
\* whole drawable and not yet the bottom row
C26_Witness ==
  /\ op = "apply"
  /\ main_loop.next_id = 3
  /\ image.mask = NoSel
  /\ hist.rect = Rect(0, 0, W, H)
  /\ Len(image_map.processor.todo) = 2
  /\ \A p \in Pixels : p[2] = 0 => drawable.buffer[p] = Filter(hist.orig[p])
  /\ \A p \in Pixels : p[2] # 0 => drawable.buffer[p] = hist.orig[p]

\* C27: a clear or an abort leaves no idle source in the main loop, and an
\* apply leaves none of those it found; a tick is the dispatch of the one
\* source of the run scheduled last, so with no source there is no tick,
\* and a source comes into the main loop by an apply only; with no source
\* the pixels change by a clear, an abort or a fill only.
C27_CancelImmediate ==
  [][/\ op' \in {"clear", "abort"}
          => /\ main_loop'.sources = {}
             /\ image_map'.idle_id = 0
     /\ op' = "apply" => main_loop'.sources \cap main_loop.sources = {}
     /\ op' = "tick"
          => /\ image_map.idle_id # 0
             /\ main_loop.sources = {image_map.idle_id}
     /\ main_loop'.sources \ main_loop.sources # {} => op' = "apply"
     /\ (main_loop.sources = {} /\ drawable'.buffer # drawable.buffer)
          => op' \in {"clear", "abort", "fill"}]_vars

\* an abort stopped a run that had ticked, and the pixels were put back
C27_Witness ==
  /\ op = "abort"
  /\ hist.cancelled
  /\ hist.ticked
  /\ main_loop.sources = {}
  /\ image_map.processor = NULL
  /\ drawable.buffer = hist.orig

\* in g the mode node feeds the output proxy, with the buffer source as its
\* input and the translated, cropped source of layer fs as its aux
FedByMode(g, fs) ==
  /\ g.t.fs_crop_node # NULL
  /\ g.t.fs_offset_node # NULL
  /\ g.t.fs_mode_node # NULL
  /\ g.t.sconn = [pad \in SourcePads |->
                    CASE pad = "output"          -> "fs_mode"
                      [] pad = "fs_mode.input"   -> "buffer_source"
                      [] pad = "fs_mode.aux"     -> "fs_offset"
                      [] pad = "fs_offset.input" -> "fs_crop"
                      [] pad = "fs_crop.input"   -> fs]
  /\ g.t.children = {"buffer_source", fs, "fs_crop", "fs_offset", "fs_mode"}

\* in g the buffer source feeds the output proxy and the three nodes are
\* absent
FedDirectly(g) ==
  /\ g.t.fs_crop_node = NULL
  /\ g.t.fs_offset_node = NULL
  /\ g.t.fs_mode_node = NULL
  /\ g.t.sconn = [pad \in SourcePads |->
                    IF pad = "output" THEN "buffer_source" ELSE "none"]
  /\ g.t.children = {"buffer_source"}

\* C28: gimp_drawable_sync_source_node(detach_fs) on a target whose source
\* graph exists leaves the mode node feeding the output proxy (buffer
\* source as input, translated cropped layer as aux) iff a floating
\* selection is bound and detach_fs is FALSE, and otherwise leaves the
\* buffer source feeding the output proxy with the three nodes absent; on
\* a target without source graph it changes nothing.  The sync made when
\* the source graph is created over a bound layer is the case of a bound
\* layer without the three nodes.
C28_SyncDecision ==
  [][/\ \A detach_fs \in BOOLEAN :
          LET fs == target.floating_selection
              g  == gimp_drawable_sync_source_node(GWorld, detach_fs)
          IN  IF ~ target.source_node THEN g = GWorld
              ELSE IF fs # NoLayer /\ ~ detach_fs THEN FedByMode(g, fs)
              ELSE FedDirectly(g)
     /\ gop' = "get_source_node"
          => IF target.floating_selection # NoLayer
               THEN FedByMode([t |-> target'], target.floating_selection)
               ELSE FedDirectly([t |-> target'])
     /\ (gop' = "detach" /\ target.source_node) =>
          FedDirectly([t |-> target'])]_vars

\* a sync with detach_fs took the three nodes down again: the layer had been
\* attached, the source graph created over it, and the layer detached
C28_Witness ==
  /\ gop = "detach"
  /\ ghist.prev = "get_source_node"
  /\ ghist.fs # NoLayer
  /\ target.source_node
  /\ FedDirectly([t |-> target])

\* the step is an operation that ran a sync over a bound layer: an attach
\* that was not rejected, the source graph being there, the creation of the
\* source graph, or a move of the bound layer
SyncedBound ==
  /\ \/ gop' = "attach" /\ target.floating_selection = NoLayer
     \/ gop' = "get_source_node"
     \/ /\ gop' = "move"
        /\ target.floating_selection # NoLayer
        /\ layers'[target.floating_selection]
             # layers[target.floating_selection]
  /\ target'.floating_selection # NoLayer
  /\ target'.fs_crop_node # NULL

\* C29 as stated: after a sync over a bound layer the crop origin is the
\* layer's offset minus the target's, the crop size is the target's width
\* and height, and the translation is the negation of the crop origin
C29_CropOverlayMinusTarget ==
  [][SyncedBound =>
       LET fs == layers'[target'.floating_selection]
       IN  /\ target'.fs_crop_node.x = fs.offset_x - target'.offset_x
           /\ target'.fs_crop_node.y = fs.offset_y - target'.offset_y
           /\ target'.fs_crop_node.width = target'.width
           /\ target'.fs_crop_node.height = target'.height
           /\ target'.fs_offset_node.x = - target'.fs_crop_node.x
           /\ target'.fs_offset_node.y = - target'.fs_crop_node.y]_vars

\* C29, amended: after a sync over a bound layer the crop origin is the
\* target's offset minus the layer's, which is the target's origin in the
\* layer's coordinates; the crop size is the target's width and height and
\* the translation is the negation of the crop origin, so the crop
\* rectangle is moved to (0, 0, width, height)
C29_CropTargetMinusOverlay ==
  [][SyncedBound =>
       LET fs == layers'[target'.floating_selection]
       IN  /\ target'.fs_crop_node.x = target'.offset_x - fs.offset_x
           /\ target'.fs_crop_node.y = target'.offset_y - fs.offset_y
           /\ target'.fs_crop_node.width = target'.width
           /\ target'.fs_crop_node.height = target'.height
           /\ target'.fs_offset_node.x = - target'.fs_crop_node.x
           /\ target'.fs_offset_node.y = - target'.fs_crop_node.y
           /\ Rect(target'.fs_crop_node.x + target'.fs_offset_node.x,
                   target'.fs_crop_node.y + target'.fs_offset_node.y,
                   target'.fs_crop_node.width, target'.fs_crop_node.height)
                = Rect(0, 0, target'.width, target'.height)]_vars

\* a layer that had been moved one row down was attached to a target that
\* had been given a buffer W columns to the right: the crop starts W columns
\* to the right of and one row above the layer's origin
C29_Witness ==
  /\ gop = "attach"
  /\ target.floating_selection # NoLayer
  /\ target.offset_x = W
  /\ target.offset_y = 0
  /\ layers[target.floating_selection].offset_x = 0
  /\ layers[target.floating_selection].offset_y = 1
  /\ target.fs_crop_node # NULL
  /\ target.fs_crop_node.x = W
  /\ target.fs_crop_node.y = -1
  /\ target.fs_offset_node = [x |-> - W, y |-> 1]

\* the property names a layer notifies
PropertyNames == {"offset-x", "offset-y", "visible", "mode", "opacity", "name"}

\* the mode, crop and translate nodes of target t hold the mode, opacity
\* and offset of layer fs
ParamsFollow(t, fs) ==
  /\ t.fs_mode_node = [mode |-> fs.mode, opacity |-> fs.opacity]
  /\ t.fs_crop_node = [x |-> t.offset_x - fs.offset_x,
                       y |-> t.offset_y - fs.offset_y,
                       width |-> t.width, height |-> t.height]
  /\ t.fs_offset_node = [x |-> fs.offset_x - t.offset_x,
                         y |-> fs.offset_y - t.offset_y]

\* layer record fs with offset, mode and opacity all changed
AllChanged(fs) ==
  [fs EXCEPT !.offset_x = CHOOSE x \in LayerOffsets : x # @,
             !.offset_y = 1 - @,
             !.mode     = CHOOSE m \in LayerModes : m # @,
             !.opacity  = CHOOSE o \in Opacities : o # @]

\* C30: while a layer is bound and the three nodes exist, every property
\* change of the layer followed by its notification leaves the mode node
\* with the layer's mode and opacity and the crop and translate nodes with
\* the layer's offset; the handler syncs for offset-x, offset-y, visible,
\* mode and opacity and for no other property: with every parameter out of
\* date, the five bring them all up to date and any other leaves them so.
C30_ParamsFollowOverlay ==
  [][/\ \A l \in Layers :
          (target'.floating_selection = l /\ target'.fs_crop_node # NULL)
            => ParamsFollow(target', layers'[l])
     /\ \A l \in Layers :
          (target.floating_selection = l /\ target.fs_crop_node # NULL)
            => LET stale == [GWorld EXCEPT !.ls[l] = AllChanged(@)]
               IN  \A pspec \in PropertyNames :
                     LET g == Notify(stale, handlers[l].notify, pspec)
                     IN  IF pspec = "name"
                           THEN g = stale
                           ELSE /\ ParamsFollow(g.t, g.ls[l])
                                /\ g = gimp_drawable_sync_source_node(stale,
                                                                      FALSE)]_vars

\* the bound layer has had its offset, its visibility, its mode and its
\* opacity changed, and the three nodes hold the new values
C30_Witness ==
  /\ gop = "notify"
  /\ \E l \in Layers :
       /\ target.floating_selection = l
       /\ layers[l].offset_x = W
       /\ layers[l].offset_y = 1
       /\ ~ layers[l].visible
       /\ layers[l].mode = "multiply"
       /\ layers[l].opacity = 50
       /\ target.fs_mode_node = [mode |-> "multiply", opacity |-> 50]
       /\ target.fs_crop_node = [x |-> - W, y |-> -1,
                                 width |-> W, height |-> H]
       /\ target.fs_offset_node = [x |-> W, y |-> 1]

\* C31: while a layer is bound and the three nodes exist, a
\* gimp_drawable_set_buffer_full that changes the target's offset or size
\* leaves the crop rectangle and the translation equal to the values
\* derived from the target's new offset, width and height
C31_ParamsFollowTarget ==
  [][(/\ gop' = "set_buffer_full"
      /\ target.floating_selection # NoLayer
      /\ target.fs_crop_node # NULL)
       => ParamsFollow(target', layers'[target'.floating_selection])]_vars

\* the target-local positions that rectangle r of layer fs covers inside
\* the footprint of target t
ForwardedCells(t, fs, r) ==
  {<<p[1] + fs.offset_x - t.offset_x, p[2] + fs.offset_y - t.offset_y>> :
     p \in {q \in PixelsOf(r) :
              InRect(<<q[1] + fs.offset_x, q[2] + fs.offset_y>>,
                     Rect(t.offset_x, t.offset_y, t.width, t.height))}}

\* C32: for an "update" a bound layer emits for a rectangle, the target
\* emits one update whose rectangle covers exactly the target-local
\* positions of the part of the layer's rectangle, moved by the layer's
\* offset, that lies in the target's footprint, so it lies within
\* (0, 0, width, height); when no position is covered it emits none
C32_UpdateForwarding ==
  [][\A l \in Layers, r \in UpdateRects :
       (/\ gop' = "layer_update"
        /\ target.floating_selection = l
        /\ GBecomes(ForwardRect(GWorld, handlers[l].update, l, r),
                    "layer_update"))
         => LET cells == ForwardedCells(target, layers[l], r)
            IN  IF cells = {} THEN gemitted' = <<>>
                ELSE /\ Len(gemitted') = 1
                     /\ PixelsOf(gemitted'[1]) = cells
                     /\ RectInside(gemitted'[1],
                                   Rect(0, 0, target.width, target.height))]_vars

\* the bound layer and the target both sit W columns to the right: the
\* layer's first pixel is forwarded as the target's first pixel
C32_Witness ==
  /\ gop = "layer_update"
  /\ target.floating_selection # NoLayer
  /\ layers[target.floating_selection].offset_x = W
  /\ target.offset_x = W
  /\ gemitted = <<Rect(0, 0, 1, 1)>>

\* C33: in every state in which the drawable's item node exists, created
\* while the drawable was visible or hidden and after any visibility
\* changes, the mode node feeds the output proxy (and the input proxy the
\* mode node) iff the drawable is visible; when it is hidden the input
\* proxy feeds the output proxy and the mode node's input is disconnected
C33_BypassInvariant ==
  target.node =>
    /\ target.mode_node
    /\ target.nconn.output = "mode" <=> target.visible
    /\ target.visible
         => target.nconn = [mode_input |-> "input", output |-> "mode"]
    /\ ~ target.visible
         => target.nconn = [mode_input |-> "none", output |-> "input"]

\* the item node was created while the drawable was hidden
C33_Witness ==
  /\ gop = "get_node"
  /\ ghist.prev = "hide"
  /\ target.node
  /\ ~ target.visible
  /\ target.nconn.output = "input"

\* in g the three nodes exist iff gimp_drawable_get_floating_sel() reports
\* a layer
TripleIffReported(g) ==
  /\ g.t.fs_crop_node # NULL <=> gimp_drawable_get_floating_sel(g) # NoLayer
  /\ g.t.fs_offset_node # NULL <=> gimp_drawable_get_floating_sel(g) # NoLayer
  /\ g.t.fs_mode_node # NULL <=> gimp_drawable_get_floating_sel(g) # NoLayer

\* C34: when an attach or a detach makes the target emit "update", the
\* state a handler of that signal sees has the three nodes iff
\* gimp_drawable_get_floating_sel reports a bound layer
C34_NoPartialRewiring ==
  [][/\ (gop' = "attach" /\ target.floating_selection = NoLayer
                         /\ gemitted' # <<>>)
          => TripleIffReported(AtAttachUpdate(GWorld,
                                              target'.floating_selection))
     /\ (gop' = "detach" /\ target.floating_selection # NoLayer
                         /\ gemitted' # <<>>)
          => TripleIffReported(AtDetachUpdate(GWorld))]_vars

\* C35: a gimp_drawable_push_undo on an attached drawable for a rectangle
\* that covers no pixel of the drawable (no area, or outside its bounds)
\* is a warning and pushes no undo record, with or without a snapshot
\* buffer supplied
C35_EmptyPushIsWarning ==
  [][\A r \in UndoRects, given \in BOOLEAN :
       (/\ op' = "push_undo"
        /\ drawable.attached
        /\ PixelsOf(r) \cap Pixels = {}
        /\ Becomes(gimp_drawable_push_undo(
                     World, IF given THEN Snapshot(r) ELSE NULL,
                     r.x, r.y, r.width, r.height), "push_undo"))
         => /\ image'.undo = image.undo
            /\ emitted' = <<[sig |-> "warning"]>>]_vars

\* C40: gimp_drawable_swap_pixels(buffer, x, y) leaves the buffer's former
\* pixels in the drawable's rectangle (x, y, buffer width, buffer height)
\* and the drawable's former pixels of that rectangle in the buffer,
\* changes no pixel outside the rectangle, emits one update for the
\* rectangle, and a second swap with the same buffer at the same position
\* restores the drawable and the buffer
C40_SwapExchanges ==
  [][\A buffer \in SwapBuffers :
       \A p \in SwapPositions(buffer) :
         (/\ op' = "swap_pixels"
          /\ Becomes(gimp_drawable_swap_pixels(World, buffer, p[1], p[2]).s,
                     "swap_pixels"))
           => LET once  == gimp_drawable_swap_pixels(World, buffer,
                                                     p[1], p[2])
                  twice == gimp_drawable_swap_pixels(once.s, once.buffer,
                                                     p[1], p[2])
                  rect  == Rect(p[1], p[2], buffer.width, buffer.height)
              IN  /\ \A q \in Extent(buffer.width, buffer.height) :
                       /\ drawable'.buffer[<<q[1] + p[1], q[2] + p[2]>>]
                            = buffer.data[q]
                       /\ once.buffer.data[q]
                            = drawable.buffer[<<q[1] + p[1], q[2] + p[2]>>]
                  /\ once.buffer.width = buffer.width
                  /\ once.buffer.height = buffer.height
                  /\ \A q \in Pixels \ PixelsOf(rect) :
                       drawable'.buffer[q] = drawable.buffer[q]
                  /\ emitted' = <<[sig |-> "update", rect |-> rect]>>
                  /\ twice.s.dr.buffer = drawable.buffer
                  /\ twice.buffer = buffer]_vars

\* the bottom row of the drawable was exchanged with the row buffer
C40_Witness ==
  /\ op = "swap_pixels"
  /\ emitted = <<[sig |-> "update", rect |-> Rect(0, H - 1, W, 1)]>>
  /\ \A p \in Pixels : p[2] = H - 1 => drawable.buffer[p] = p[1] % NVals
  /\ \E initial \in InitBuffers :
       /\ \E p \in Pixels : p[2] = H - 1 /\ drawable.buffer[p] # initial[p]
       /\ \A p \in Pixels : p[2] # H - 1 => drawable.buffer[p] = initial[p]

\* C36: when a commit or a clear returns on an attached drawable the
\* session holds no scratch buffer; so a clear directly after a commit
\* changes no pixel and emits nothing, and a commit directly after a clear
\* pushes no undo record
C36_NoScratchAfterEnd ==
  [][/\ (op' \in {"commit", "clear"} /\ drawable'.attached)
          => image_map'.undo_buffer = NULL
     /\ (op = "commit" /\ op' = "clear" /\ drawable.attached)
          => /\ drawable'.buffer = drawable.buffer
             /\ emitted' = <<>>
     /\ (op = "clear" /\ op' = "commit" /\ drawable.attached)
          => /\ image'.undo = image.undo
             /\ emitted' = <<>>]_vars

\* a clear directly after the commit of a run: the filtered pixels and the
\* one undo record are still there
C36_Witness ==
  /\ op = "clear"
  /\ hist.prev
  /\ drawable.attached
  /\ Len(image.undo) = 1
  /\ image_map.undo_buffer = NULL
  /\ emitted = <<>>
  /\ \E q \in DOMAIN image.undo[1].data :
       drawable.buffer[<<q[1] + image.undo[1].rect.x,
                         q[2] + image.undo[1].rect.y>>]
         # image.undo[1].data[q]

\* the drawable's pixels after one apply on a new session, drained, the
\* drawable holding pixels `orig` and the selection being the current one
AppliedOnce(orig) ==
  DoWhile(gimp_image_map_apply(
            [World EXCEPT !.dr.buffer = orig,
                          !.im = [undo_buffer |-> NULL, undo_offset_x |-> 0,
                                  undo_offset_y |-> 0,
                                  translate |-> <<0, 0>>,
                                  processor |-> NULL, idle_id |-> 0,
                                  operation |-> image_map.operation]],
            Rect(0, 0, W, H))).dr.buffer

\* the last run of a session whose scratch buffer was populated once, from
\* the pixels the session started with, has been drained by its ticks, and
\* nothing but the session has written the drawable meanwhile
DrainedSameScratch ==
  /\ Completed
  /\ hist.phase = "run"
  /\ drawable.attached
  /\ image_map.undo_buffer # NULL
  /\ hist.pop = hist.orig
  /\ ~ hist.filled

\* C37: when the last of one or more applies over an unchanged region has
\* been drained, earlier runs drained or cancelled, the drawable's pixels
\* are those one apply, drained, gives from the pixels the session started
\* with: the filter is not applied to its own output
C37_NoCompounding ==
  DrainedSameScratch => drawable.buffer = AppliedOnce(hist.orig)

\* the second apply was called when the drawable held filtered pixels, and
\* its run has been drained
C37_Witness ==
  /\ DrainedSameScratch
  /\ main_loop.next_id = 3
  /\ hist.pre # hist.orig
  /\ drawable.buffer # hist.orig
  /\ drawable.buffer = AppliedOnce(hist.orig)

\* the session holds an idle handle iff it holds a processor
HandleIffProcessor(im) == im.idle_id # 0 <=> im.processor # NULL

\* C38: between the operations of a session, the drawable attached or not,
\* the idle handle is non-zero iff a processor is held; so a tick finds a
\* processor, and an apply creates its processor when none is held, the
\* one of a run still scheduled having been released first
C38_HandleIffProcessor ==
  [][/\ HandleIffProcessor(image_map)
     /\ HandleIffProcessor(image_map')
     /\ op' = "tick" => image_map.processor # NULL
     /\ op' = "apply"
          => gimp_image_map_stop_idle(World).im.processor = NULL]_vars

\* an apply found a run scheduled and left a new run with a processor over
\* the whole region
C38_Witness ==
  /\ op = "apply"
  /\ hist.cancelled
  /\ image_map.idle_id # 0
  /\ image_map.processor # NULL
  /\ image_map.processor.todo = Chunks(image_map.processor.rect)

\* the coordinates sampled: the drawable and one position beyond it on
\* every side
SampleCoords == (-1 .. W) \X (-1 .. H)

\* C39: while the session holds a scratch buffer, gimp_image_map_get_pixel_at
\* gives, at every coordinate inside the drawable's bounds, the value the
\* drawable had there before the filter was applied, and FALSE at every
\* coordinate outside the bounds
C39_SampleOriginal ==
  image_map.undo_buffer # NULL =>
    \A c \in SampleCoords :
      LET r == gimp_image_map_get_pixel_at(World, c[1], c[2])
      IN  IF c \in Pixels
            THEN r.ret /\ r.pixel = hist.orig[c]
            ELSE ~ r.ret
====
